---- MODULE Spec2Model ----
(***************************************************************************)
(* A model of src/modules/data_manager.py: the progress store of           *)
(* DataManager (load, backup, atomic save, reload, item notes) as a state  *)
(* machine over the three files it touches, and the requirement resolver   *)
(* find_hideout_requirements as an operator over bounded reference data.   *)
(* The other queries of DataManager and the save timer of                  *)
(* src/modules/base_manager_window.py follow, each with its specification. *)
(***************************************************************************)
EXTENDS Integers, Sequences, FiniteSets, TLC

VARIABLES
    pc,             \* position of the single calling thread
    user_progress,  \* DataManager.user_progress (an insertion-ordered dict)
    progress_file,  \* Constants.PROGRESS_FILE on disk
    tmp_file,       \* Constants.PROGRESS_FILE + ".tmp"
    bak_file,       \* Constants.PROGRESS_FILE + ".bak"
    caller,         \* who entered save_user_progress
    ret,            \* what the last finished call handed back to its caller
    hist,           \* history of the run (what the claims speak about)
    hideout_data,   \* DataManager.hideout_data, in declaration order
    station_level,  \* user_progress[station id], for the ids that are keys of it
    h_inv,          \* user_progress['hideout_inventory'], keyed by the path
                    \* <<station id, level as a string, item id>>
    query,          \* the item name the resolver was last asked about
    results,        \* the list it returned
    project_data,   \* DataManager.project_data, in declaration order
    project_phase,  \* user_progress['projects'][id]['completed_phase'], where set
    p_inv,          \* user_progress['projects'][id]['inventory'], keyed by the
                    \* path <<project id, phase as a string, item id>>
    trade_data,     \* DataManager.trade_data, in declaration order
    quest_data,     \* DataManager.quest_data, in the order the files were met
    quest_progress, \* the records of user_progress['quests'], by quest id
    quest_order,    \* user_progress.get('quest_order', [])
    item_dir,       \* the items directory: whether it exists, and its files
                    \* in the order os.listdir gives them
    loaded,         \* whether the items were loaded and the maps built
    choices,        \* the dict _load_items_from_dir returns: DataManager.items
    id_to_item_map, \* DataManager.id_to_item_map
    id_to_name_map, \* DataManager.id_to_name_map
    diagnostics,    \* the lines the item loader printed
    call,           \* the latest call of another query: its function, its
                    \* argument, whether it raised and what it returned
    save_timer,     \* BaseManagerWindow.save_timer: whether it is active, and
                    \* the milliseconds left until it fires
    window,         \* whether the manager window is shown, hidden, or is
                    \* being hidden by a close
    saves,          \* how many times save_progress was invoked
    armings,        \* how many times start_save_timer found the timer idle
    last            \* the latest thing that happened to the window

svars == <<pc, user_progress, progress_file, tmp_file, bak_file, caller, ret, hist>>
rvars == <<hideout_data, station_level, h_inv, query, results>>
pvars == <<project_data, project_phase, p_inv, trade_data>>
qvars == <<quest_data, quest_progress, quest_order>>
ivars == <<item_dir, loaded, choices, id_to_item_map, id_to_name_map, diagnostics>>
wvars == <<save_timer, window, saves, armings, last>>
vars == <<pc, user_progress, progress_file, tmp_file, bak_file, caller, ret, hist,
          hideout_data, station_level, h_inv, query, results,
          project_data, project_phase, p_inv, trade_data,
          quest_data, quest_progress, quest_order,
          item_dir, loaded, choices, id_to_item_map, id_to_name_map, diagnostics,
          call, save_timer, window, saves, armings, last>>

\* what the progress store leaves alone, and what find_hideout_requirements does
nonstore == <<rvars, pvars, qvars, ivars, call, wvars>>
nonhideout == <<svars, pvars, qvars, ivars, call, wvars>>

----------------------------------------------------------------------------
(* Bounds of the model.                                                    *)

\* in-session calls (set_item_note, save_user_progress, reload_progress)
\* made by one process before it stops calling
MaxCalls == 3
\* resolver inputs: the highest level number a station declares, the most
\* levels the first station declares, the highest current level of a
\* station, the highest owned count in the inventory
MaxLevel == 3
MaxLevels == 2
MaxCur == 2
MaxOwned == 2

----------------------------------------------------------------------------
(* JSON documents.  A dict is a sequence of entries in insertion order, as *)
(* a Python dict is; a top-level value is a string or a dict of strings.   *)
(* A string is a sequence of characters.                                   *)

Leaf(k, s) == [k |-> k, s |-> s]
Scalar(k, s) == [k |-> k, obj |-> FALSE, s |-> s, o |-> <<>>]
Object(k, o) == [k |-> k, obj |-> TRUE, s |-> <<>>, o |-> o]

Keys(d) == {d[i].k : i \in 1..Len(d)}
Index(d, k) == CHOOSE i \in 1..Len(d) : d[i].k = k

\* d[k] = e: an existing key keeps its place, a new one goes last
DictSet(d, e) ==
    IF e.k \in Keys(d) THEN [d EXCEPT ![Index(d, e.k)] = e] ELSE Append(d, e)

\* del d[k]
DictDel(d, k) ==
    LET i == Index(d, k)
    IN  [j \in 1..(Len(d) - 1) |-> IF j < i THEN d[j] ELSE d[j + 1]]

\* Python's == on two dicts: the same keys with equal values, in any order
Canon(e) == [k |-> e.k, obj |-> e.obj, s |-> e.s, o |-> {e.o[i] : i \in 1..Len(e.o)}]
DeepEq(a, b) ==
    /\ Len(a) = Len(b)
    /\ {Canon(a[i]) : i \in 1..Len(a)} = {Canon(b[i]) : i \in 1..Len(b)}

----------------------------------------------------------------------------
(* json.dump and json.load.  The bytes of a file are a sequence of tokens: *)
(* braces, keys and strings.  A file cut short (a partial write) is a      *)
(* proper prefix of a document's tokens and does not parse.                *)

Open == [t |-> "{", v |-> <<>>]
Close == [t |-> "}", v |-> <<>>]
KeyTok(k) == [t |-> "key", v |-> <<k>>]
StrTok(s) == [t |-> "str", v |-> s]

RECURSIVE DumpLeaves(_)
DumpLeaves(o) ==
    IF o = <<>> THEN <<>>
    ELSE <<KeyTok(Head(o).k), StrTok(Head(o).s)>> \o DumpLeaves(Tail(o))

DumpEntry(e) ==
    IF e.obj THEN <<KeyTok(e.k), Open>> \o DumpLeaves(e.o) \o <<Close>>
    ELSE <<KeyTok(e.k), StrTok(e.s)>>

RECURSIVE DumpEntries(_)
DumpEntries(d) ==
    IF d = <<>> THEN <<>> ELSE DumpEntry(Head(d)) \o DumpEntries(Tail(d))

\* the JSON text of document d
Text(d) == <<Open>> \o DumpEntries(d) \o <<Close>>

\* a save that writes the notes only and drops every other key
DumpsNotesOnly(d) == Text(SelectSeq(d, LAMBDA e : e.k = "item_notes"))

\* json.dump(self.user_progress, f, indent=4): the text of the whole document
Dumps(d) == Text(d)

Prefix(b, n) == SubSeq(b, 1, n)

\* how many tokens of text b an interrupted write or copy may have put in its
\* file: none, about half, or all of them (the failure came after the last)
Cuts(b) == {0, Len(b) \div 2, Len(b)}

ParseError == [ok |-> FALSE, doc |-> <<>>, next |-> 0]

\* the members of a nested dict, from token i; next is the token after its "}"
RECURSIVE ParseLeaves(_, _, _)
ParseLeaves(b, i, acc) ==
    IF i > Len(b) THEN ParseError
    ELSE IF b[i].t = "}" THEN [ok |-> TRUE, doc |-> acc, next |-> i + 1]
    ELSE IF b[i].t = "key" /\ i + 1 <= Len(b) /\ b[i + 1].t = "str"
         THEN ParseLeaves(b, i + 2, DictSet(acc, Leaf(b[i].v[1], b[i + 1].v)))
    ELSE ParseError

\* the members of the top-level dict, from token i; its "}" ends the text
RECURSIVE ParseEntries(_, _, _)
ParseEntries(b, i, acc) ==
    IF i > Len(b) THEN ParseError
    ELSE IF b[i].t = "}"
         THEN IF i = Len(b) THEN [ok |-> TRUE, doc |-> acc, next |-> i + 1]
              ELSE ParseError
    ELSE IF b[i].t = "key" /\ i + 1 <= Len(b) /\ b[i + 1].t = "str"
         THEN ParseEntries(b, i + 2, DictSet(acc, Scalar(b[i].v[1], b[i + 1].v)))
    ELSE IF b[i].t = "key" /\ i + 1 <= Len(b) /\ b[i + 1].t = "{"
         THEN LET r == ParseLeaves(b, i + 2, <<>>)
              IN  IF r.ok
                  THEN ParseEntries(b, r.next, DictSet(acc, Object(b[i].v[1], r.doc)))
                  ELSE ParseError
    ELSE ParseError

\* json.load(f): the document, or a JSONDecodeError (ok = FALSE)
Loads(b) ==
    IF Len(b) >= 1 /\ b[1].t = "{" THEN ParseEntries(b, 2, <<>>) ELSE ParseError

----------------------------------------------------------------------------
(* Files.                                                                  *)

Absent == [exists |-> FALSE, bytes |-> <<>>]
File(b) == [exists |-> TRUE, bytes |-> b]

\* DataManager._load_json(filepath, {}): a missing or unparsable file gives {}
load_json(f) ==
    IF ~f.exists THEN <<>>
    ELSE LET r == Loads(f.bytes) IN IF r.ok THEN r.doc ELSE <<>>

\* DataManager._backup_progress: the outcomes of one call on progress file pf
\* with backup bak.  Nothing is copied when pf is absent; shutil.copy2 either
\* completes, or raises (caught and printed) before touching the backup, or
\* after it has truncated it and written some of pf.
\* a backup that reports success and copies nothing (a wrong destination)
backup_progress_nowhere(pf, bak) ==
    IF ~pf.exists THEN {[bak |-> bak, how |-> "skipped"]}
    ELSE {[bak |-> bak, how |-> "copied"], [bak |-> bak, how |-> "failed"]}

backup_progress(pf, bak) ==
    IF ~pf.exists THEN {[bak |-> bak, how |-> "skipped"]}
    ELSE {[bak |-> File(pf.bytes), how |-> "copied"], [bak |-> bak, how |-> "failed"]}
         \cup {[bak |-> File(Prefix(pf.bytes, n)), how |-> "failed"] :
                 n \in Cuts(pf.bytes)}

----------------------------------------------------------------------------
(* Strings and notes.                                                      *)

IsSpace(c) == c = " "

RECURSIVE LStrip(_)
LStrip(s) == IF s # <<>> /\ IsSpace(Head(s)) THEN LStrip(Tail(s)) ELSE s

RECURSIVE RStrip(_)
RStrip(s) ==
    IF s # <<>> /\ IsSpace(s[Len(s)]) THEN RStrip(SubSeq(s, 1, Len(s) - 1)) ELSE s

\* str.strip()
Strip(s) == RStrip(LStrip(s))

\* the body storing the note as it was given
SetNoteUnstripped(d, item_id, note) ==
    LET d1 == IF "item_notes" \in Keys(d) THEN d
              ELSE DictSet(d, Object("item_notes", <<>>))
        notes == d1[Index(d1, "item_notes")].o
        notes1 == IF note # <<>> /\ Strip(note) # <<>>
                  THEN DictSet(notes, Leaf(item_id, note))
                  ELSE IF item_id \in Keys(notes) THEN DictDel(notes, item_id)
                  ELSE notes
    IN  DictSet(d1, Object("item_notes", notes1))

\* the body of DataManager.set_item_note before it saves
SetNote(d, item_id, note) ==
    LET d1 == IF "item_notes" \in Keys(d) THEN d
              ELSE DictSet(d, Object("item_notes", <<>>))
        notes == d1[Index(d1, "item_notes")].o
        notes1 == IF note # <<>> /\ Strip(note) # <<>>
                  THEN DictSet(notes, Leaf(item_id, Strip(note)))
                  ELSE IF item_id \in Keys(notes) THEN DictDel(notes, item_id)
                  ELSE notes
    IN  DictSet(d1, Object("item_notes", notes1))

\* DataManager.get_item_note
get_item_note(d, item_id) ==
    LET notes == IF "item_notes" \in Keys(d) THEN d[Index(d, "item_notes")].o ELSE <<>>
    IN  IF item_id \in Keys(notes) THEN notes[Index(notes, item_id)].s ELSE <<>>

----------------------------------------------------------------------------
(* Inputs of the progress store.                                           *)

ItemIds == {"a", "b"}
NoteInputs == {<<>>, <<" ">>, <<"n">>, <<" ", "m", " ">>}

\* well-formed progress documents a previous run may have left on disk: the
\* empty one, one with an unknown top-level key, one with notes as well
InitDocs ==
    { <<>>,
      <<Scalar("custom", <<"x">>)>>,
      <<Object("item_notes", <<Leaf("a", <<"n">>)>>), Scalar("custom", <<"x">>)>> }

\* what an earlier process may have left behind: a backup of an older
\* document, a temp file of a save that was cut short
InitBackups == {Absent, File(Text(<<Scalar("custom", <<"o">>)>>))}
InitTemps == {Absent, File(<<Open>>)}

----------------------------------------------------------------------------
(* History: the call in progress or last finished (last), the one before   *)
(* it (prev), the progress file as the process found it (session_file),    *)
(* the progress file at the latest backup that found one (bak_src), how    *)
(* that backup ended (bak_how) and whether any backup failed (bak_failed).  *)

NoCall ==
    [op |-> "none", via |-> "none", ok |-> FALSE, replaced |-> FALSE,
     mem |-> <<>>, file0 |-> Absent, bak0 |-> Absent, how |-> "none",
     ret |-> [value |-> "unset", raised |-> FALSE]]

Call(op, via, mem) ==
    [NoCall EXCEPT !.op = op, !.via = via, !.ok = TRUE, !.mem = mem,
                   !.file0 = progress_file, !.bak0 = bak_file]

Brief(c) == [op |-> c.op, ok |-> c.ok, mem |-> c.mem, ret |-> c.ret]

NoHist ==
    [last |-> NoCall, prev |-> Brief(NoCall), session_file |-> Absent,
     bak_src |-> Absent, bak_how |-> "none", bak_failed |-> FALSE, calls |-> 0]

----------------------------------------------------------------------------
(* The progress store as a state machine.                                  *)

Returned == [value |-> "None", raised |-> FALSE]

InitStore ==
    /\ pc = "off"
    /\ user_progress = <<>>
    /\ progress_file \in {Absent} \cup {File(Text(d)) : d \in InitDocs}
    /\ tmp_file \in InitTemps
    /\ bak_file \in InitBackups
    /\ caller = "none"
    /\ ret = NoCall.ret
    /\ hist = NoHist

\* the load and the backup that DataManager.__init__ and reload_progress share
LoadAndBackup(op) ==
    \E out \in backup_progress(progress_file, bak_file) :
        /\ user_progress' = load_json(progress_file)
        /\ bak_file' = out.bak
        /\ pc' = "idle"
        /\ ret' = Returned
        /\ hist' = [hist EXCEPT
                      !.prev = Brief(hist.last),
                      !.last = [Call(op, op, user_progress) EXCEPT
                                  !.how = out.how, !.ret = Returned],
                      !.bak_src = IF out.how = "skipped" THEN @ ELSE progress_file,
                      !.bak_how = IF out.how = "skipped" THEN @ ELSE out.how,
                      !.bak_failed = @ \/ out.how = "failed",
                      !.session_file = IF op = "init" THEN progress_file ELSE @,
                      !.calls = IF op = "init" THEN 0 ELSE @ + 1]
        /\ UNCHANGED <<progress_file, tmp_file, caller>>

\* DataManager.__init__ (the progress part): a process starts
Start ==
    /\ pc = "off"
    /\ LoadAndBackup("init")
    /\ UNCHANGED nonstore

\* DataManager.reload_progress
reload_progress ==
    /\ pc = "idle"
    /\ hist.calls < MaxCalls
    /\ LoadAndBackup("reload")
    /\ UNCHANGED nonstore

\* entering save_user_progress with the in-memory state mem
EnterSave(via, mem) ==
    /\ pc' = "save_open"
    /\ caller' = via
    /\ hist' = [hist EXCEPT !.prev = Brief(hist.last), !.last = Call("save", via, mem),
                            !.calls = @ + 1]

\* a direct call of DataManager.save_user_progress
save_user_progress ==
    /\ pc = "idle"
    /\ hist.calls < MaxCalls
    /\ EnterSave("save_user_progress", user_progress)
    /\ UNCHANGED <<user_progress, progress_file, tmp_file, bak_file, ret>>
    /\ UNCHANGED nonstore

\* DataManager.set_item_note: change the notes, then save
set_item_note ==
    /\ pc = "idle"
    /\ hist.calls < MaxCalls
    /\ \E item_id \in ItemIds, note \in NoteInputs :
          /\ user_progress' = SetNote(user_progress, item_id, note)
          /\ EnterSave("set_item_note", user_progress')
    /\ UNCHANGED <<progress_file, tmp_file, bak_file, ret>>
    /\ UNCHANGED nonstore

\* an exception inside the try block: control goes to the except clause
Raise ==
    /\ pc' = "save_except"
    /\ hist' = [hist EXCEPT !.last.ok = FALSE]

\* open(temp_file, 'w'): creates or truncates the temp file, or raises
SaveOpen ==
    /\ pc = "save_open"
    /\ \/ /\ tmp_file' = File(<<>>)
          /\ pc' = "save_write"
          /\ UNCHANGED hist
       \/ /\ Raise
          /\ UNCHANGED tmp_file
    /\ UNCHANGED <<user_progress, progress_file, bak_file, caller, ret>>
    /\ UNCHANGED nonstore

\* a save that writes the text straight into the progress file
SaveWriteInPlace ==
    /\ pc = "save_write"
    /\ \/ /\ progress_file' = File(Dumps(user_progress))
          /\ pc' = "save_fsync"
          /\ UNCHANGED hist
       \/ /\ \E n \in Cuts(Dumps(user_progress)) :
                progress_file' = File(Prefix(Dumps(user_progress), n))
          /\ Raise
    /\ UNCHANGED <<user_progress, tmp_file, bak_file, caller, ret>>
    /\ UNCHANGED nonstore

\* json.dump and f.flush(): the whole text, or an exception after some of it
SaveWrite ==
    /\ pc = "save_write"
    /\ \/ /\ tmp_file' = File(Dumps(user_progress))
          /\ pc' = "save_fsync"
          /\ UNCHANGED hist
       \/ /\ \E n \in Cuts(Dumps(user_progress)) :
                tmp_file' = File(Prefix(Dumps(user_progress), n))
          /\ Raise
    /\ UNCHANGED <<user_progress, progress_file, bak_file, caller, ret>>
    /\ UNCHANGED nonstore

\* os.fsync(f.fileno()), then the with block closes the file
SaveFsync ==
    /\ pc = "save_fsync"
    /\ \/ /\ pc' = "save_replace"
          /\ UNCHANGED hist
       \/ Raise
    /\ UNCHANGED <<user_progress, progress_file, tmp_file, bak_file, caller, ret>>
    /\ UNCHANGED nonstore

\* a replace that first moves the old progress file over the backup
SaveReplaceKeepingOld ==
    /\ pc = "save_replace"
    /\ \/ /\ progress_file' = tmp_file
          /\ bak_file' = progress_file
          /\ tmp_file' = Absent
          /\ pc' = "idle"
          /\ ret' = Returned
          /\ hist' = [hist EXCEPT !.last.replaced = TRUE, !.last.ret = Returned]
       \/ /\ Raise
          /\ UNCHANGED <<progress_file, tmp_file, bak_file, ret>>
    /\ UNCHANGED <<user_progress, caller>>
    /\ UNCHANGED nonstore

\* a copy in place of the replace: the temp file stays behind
SaveReplaceByCopy ==
    /\ pc = "save_replace"
    /\ \/ /\ progress_file' = tmp_file
          /\ pc' = "idle"
          /\ ret' = Returned
          /\ hist' = [hist EXCEPT !.last.replaced = TRUE, !.last.ret = Returned]
          /\ UNCHANGED tmp_file
       \/ /\ Raise
          /\ UNCHANGED <<progress_file, tmp_file, ret>>
    /\ UNCHANGED <<user_progress, bak_file, caller>>
    /\ UNCHANGED nonstore

\* os.replace(temp_file, PROGRESS_FILE): atomic, or raises and changes nothing;
\* on success the function falls off its end
SaveReplace ==
    /\ pc = "save_replace"
    /\ \/ /\ progress_file' = tmp_file
          /\ tmp_file' = Absent
          /\ pc' = "idle"
          /\ ret' = Returned
          /\ hist' = [hist EXCEPT !.last.replaced = TRUE, !.last.ret = Returned]
       \/ /\ Raise
          /\ UNCHANGED <<progress_file, tmp_file, ret>>
    /\ UNCHANGED <<user_progress, bak_file, caller>>
    /\ UNCHANGED nonstore

\* an except clause that tests and removes the progress file, not the temp file
SaveExceptWrongPath ==
    /\ pc = "save_except"
    /\ \E how \in IF progress_file.exists THEN {"removed", "remove_failed"}
                   ELSE {"no_temp"} :
          /\ progress_file' = IF how = "removed" THEN Absent ELSE progress_file
          /\ hist' = [hist EXCEPT !.last.ret = Returned, !.last.how = how]
    /\ pc' = "idle"
    /\ ret' = Returned
    /\ UNCHANGED <<user_progress, tmp_file, bak_file, caller>>
    /\ UNCHANGED nonstore

\* an except clause that also rolls the memory back to what is on disk
SaveExceptRollback ==
    /\ pc = "save_except"
    /\ \E how \in IF tmp_file.exists THEN {"removed", "remove_failed"} ELSE {"no_temp"} :
          /\ tmp_file' = IF how = "removed" THEN Absent ELSE tmp_file
          /\ hist' = [hist EXCEPT !.last.ret = Returned, !.last.how = how]
    /\ user_progress' = load_json(progress_file)
    /\ pc' = "idle"
    /\ ret' = Returned
    /\ UNCHANGED <<progress_file, bak_file, caller>>
    /\ UNCHANGED nonstore

\* the except clause: print, remove the temp file if it is there (a failure
\* of os.remove is passed over), and fall off the end
SaveExcept ==
    /\ pc = "save_except"
    /\ \E how \in IF tmp_file.exists THEN {"removed", "remove_failed"} ELSE {"no_temp"} :
          /\ tmp_file' = IF how = "removed" THEN Absent ELSE tmp_file
          /\ hist' = [hist EXCEPT !.last.ret = Returned, !.last.how = how]
    /\ pc' = "idle"
    /\ ret' = Returned
    /\ UNCHANGED <<user_progress, progress_file, bak_file, caller>>
    /\ UNCHANGED nonstore

\* the process dies (killed, power cut): memory is lost, the files stay; a
\* write that was under way may have put any part of the text in the temp file
Crash ==
    /\ pc \notin {"off", "crashed"}
    /\ pc' = "crashed"
    /\ user_progress' = <<>>
    /\ IF pc = "save_write"
       THEN \E n \in Cuts(Dumps(user_progress)) :
               tmp_file' = File(Prefix(Dumps(user_progress), n))
       ELSE UNCHANGED tmp_file
    /\ UNCHANGED <<progress_file, bak_file, caller, ret, hist>>
    /\ UNCHANGED nonstore

\* no query has been called yet
NoQuery == [fn |-> "none", arg |-> <<>>, raised |-> FALSE, out |-> <<>>]

\* no project, trade or project progress is loaded
NoProjects ==
    /\ project_data = <<>>
    /\ project_phase = <<>>
    /\ p_inv = <<>>
    /\ trade_data = <<>>

\* no quest or quest progress is loaded
NoQuests ==
    /\ quest_data = <<>>
    /\ quest_progress = <<>>
    /\ quest_order = <<>>

\* no item directory is read
NoItems ==
    /\ item_dir = [exists |-> FALSE, files |-> <<>>]
    /\ loaded = FALSE
    /\ choices = <<>>
    /\ id_to_item_map = <<>>
    /\ id_to_name_map = <<>>
    /\ diagnostics = <<>>

\* no manager window is open and its save timer was never started
NoWindow ==
    /\ save_timer = [active |-> FALSE, remaining |-> 0]
    /\ window = "hidden"
    /\ saves = 0
    /\ armings = 0
    /\ last = "none"

NoResolver ==
    /\ hideout_data = <<>>
    /\ station_level = <<>>
    /\ h_inv = <<>>
    /\ query = "none"
    /\ results = <<>>

Init ==
    /\ InitStore /\ NoResolver /\ NoProjects /\ NoQuests /\ NoItems
    /\ call = NoQuery /\ NoWindow

Next ==
    \/ Start
    \/ reload_progress
    \/ save_user_progress
    \/ set_item_note
    \/ SaveOpen
    \/ SaveWrite
    \/ SaveFsync
    \/ SaveReplace
    \/ SaveExcept
    \/ Crash

Spec == Init /\ [][Next]_vars

----------------------------------------------------------------------------
(* The progress store: what is claimed of it.                              *)

Saving == hist.last.op = "save"
SaveReturned == pc = "idle" /\ Saving
SaveFailed == SaveReturned /\ ~hist.last.ok
Loaded == pc = "idle" /\ hist.last.op \in {"init", "reload"}
NewText == File(Text(hist.last.mem))

\* C1: at every point of save_user_progress, a crash or an exception at any
\* step included, the progress file holds either exactly what it held when
\* the save began or the complete new text of user_progress, never a part of
\* it; and until os.replace has succeeded it holds what it held before.
C1_AtomicSave ==
    Saving =>
        /\ progress_file \in {hist.last.file0, NewText}
        /\ ~hist.last.replaced => progress_file = hist.last.file0

\* C1 witness: the process died with the whole new text in the temp file and
\* the replace not done; the progress file still holds the old, different text.
C1_CrashBeforeReplace ==
    /\ pc = "crashed"
    /\ Saving
    /\ ~hist.last.replaced
    /\ tmp_file = NewText
    /\ progress_file = hist.last.file0
    /\ progress_file # NewText

\* C2: a failed save is told apart from a successful one by the caller: what
\* a failed save_user_progress hands back (its value, or an exception it
\* raises) differs from what the successful save before it handed back.
C2_FailureSurfaced ==
    (SaveFailed /\ hist.prev.op = "save" /\ hist.prev.ok) =>
        hist.last.ret # hist.prev.ret

\* C3 as stated: in a session whose progress file existed at start and none
\* of whose backup copies failed, the .bak file holds the progress file as it
\* was on disk when the session started, whatever calls were made since.
C3_BackupIsPreSession ==
    (pc = "idle" /\ hist.session_file.exists /\ ~hist.bak_failed) =>
        bak_file = hist.session_file

\* C3 amended: the .bak file holds a full copy of the progress file as it was
\* on disk at the latest load that copied it (construction or the latest
\* reload_progress); set_item_note and save_user_progress never change it.
C3_BackupIsLatestCopy ==
    (pc # "off" /\ hist.bak_how = "copied") => bak_file = hist.bak_src

\* C3 witness: a save has replaced the progress file and the backup still
\* holds the older text.
C3_SavedPastBackup ==
    /\ SaveReturned
    /\ hist.last.replaced
    /\ hist.bak_how = "copied"
    /\ bak_file = hist.session_file
    /\ bak_file # progress_file

\* C4 as stated: after every load whose backup step did not fail, the absent
\* progress file included, a .bak file exists, and after construction it
\* reads as the pre-session state.
C4_BackupAfterLoad ==
    (Loaded /\ hist.last.how # "failed") =>
        /\ bak_file.exists
        /\ hist.last.op = "init" =>
               DeepEq(load_json(bak_file), load_json(hist.session_file))

\* C4 amended: after a load that found the progress file on disk and whose
\* copy succeeded, the .bak file exists and is a full copy of the progress
\* file on disk (the pre-session state after construction); a load that
\* finds no progress file makes no backup and leaves .bak as it was.
C4_BackupWhenFilePresent ==
    Loaded =>
        /\ progress_file.exists <=> hist.last.how # "skipped"
        /\ hist.last.how = "copied" =>
               /\ bak_file.exists
               /\ bak_file = progress_file
               /\ hist.last.op = "init" => bak_file = hist.session_file
        /\ hist.last.how = "skipped" => bak_file = hist.last.bak0

\* C4 witness: construction found a progress file and replaced an older
\* backup by a copy of it.
C4_FreshBackup ==
    /\ Loaded
    /\ hist.last.op = "init"
    /\ hist.last.how = "copied"
    /\ hist.last.bak0.exists
    /\ bak_file # hist.last.bak0

\* C5 as stated: when save_user_progress returns after a failure, no temp
\* file is left and the progress file is as it was when the save began.
C5_NoTempAfterFailure ==
    SaveFailed => ~tmp_file.exists /\ progress_file = hist.last.file0

\* C5 amended: when save_user_progress returns after a failure the progress
\* file is as it was when the save began, and no temp file is left unless
\* the os.remove of the temp file itself failed.
C5_NoTempUnlessRemoveFails ==
    SaveFailed =>
        /\ progress_file = hist.last.file0
        /\ tmp_file.exists <=> hist.last.how = "remove_failed"

\* C5 witness: a save failed with a temp file on disk and removed it.
C5_TempRemoved ==
    SaveFailed /\ hist.last.how = "removed" /\ ~tmp_file.exists

\* C6: of two save_user_progress calls in a row with the same in-memory
\* state, the first successful, the second leaves the progress file with the
\* bytes the first left, and when it succeeds too it leaves no temp file.
C6_SaveTwice ==
    (SaveReturned /\ hist.prev.op = "save" /\ hist.prev.ok
        /\ hist.prev.mem = hist.last.mem) =>
        /\ progress_file = hist.last.file0
        /\ hist.last.ok => ~tmp_file.exists /\ progress_file = NewText

\* C6 witness: two direct saves in a row, both successful, of a state that is
\* not what the session found on disk.
C6_SavedTwice ==
    /\ SaveReturned
    /\ hist.prev.op = "save" /\ hist.prev.ok /\ hist.prev.mem = hist.last.mem
    /\ hist.last.ok /\ hist.last.replaced
    /\ caller = "save_user_progress"
    /\ progress_file # hist.session_file

\* C7: a successful save followed by a load of the progress file gives an
\* in-memory state deep-equal to the state saved, unknown top-level keys and
\* the empty state included.
C7_RoundTrip ==
    (pc = "idle" /\ hist.last.op = "reload" /\ hist.prev.op = "save" /\ hist.prev.ok) =>
        DeepEq(user_progress, hist.prev.mem)

\* C7 witness: a state with an unknown key and two notes came back from disk.
C7_ReloadedAfterSave ==
    /\ pc = "idle" /\ hist.last.op = "reload"
    /\ hist.prev.op = "save" /\ hist.prev.ok
    /\ "custom" \in Keys(user_progress)
    /\ get_item_note(user_progress, "a") # <<>>
    /\ get_item_note(user_progress, "b") # <<>>

\* C8: a failed save leaves user_progress as it was when the save began and
\* the progress file at its last written value; a failed backup leaves the
\* progress file alone too, and the load it belongs to still completes with
\* the loaded state in memory and without raising.
C8_FailureKeepsState ==
    /\ (Saving /\ ~hist.last.ok /\ pc \in {"save_except", "idle"}) =>
           /\ user_progress = hist.last.mem
           /\ progress_file = hist.last.file0
    /\ (hist.last.op \in {"init", "reload"} /\ hist.last.how = "failed"
           /\ pc # "crashed") =>
           /\ pc = "idle"
           /\ ~ret.raised
           /\ progress_file = hist.last.file0
           /\ user_progress = load_json(progress_file)

\* C8 witness: a save failed and the memory holds a note the disk does not.
C8_MemoryAhead ==
    /\ SaveFailed
    /\ get_item_note(user_progress, "b") # <<>>
    /\ get_item_note(load_json(progress_file), "b") = <<>>

----------------------------------------------------------------------------
(* The requirement resolver.  It reads the item table, hideout_data and    *)
(* two parts of user_progress: the per-station level keys and the nested   *)
(* hideout_inventory.                                                      *)

\* ItemDatabase.items as DataManager holds it: name -> item; an item may
\* come without an id
items ==
    [n \in {"Wire", "Nail", "Gear"} |->
        CASE n = "Wire" -> [has_id |-> TRUE, id |-> "wire"]
          [] n = "Nail" -> [has_id |-> TRUE, id |-> "nail"]
          [] n = "Gear" -> [has_id |-> FALSE, id |-> ""]]

ItemNames == {"Wire", "Nail", "Gear", "Nope"}

\* str(lvl) of a small level number
StrOfInt(n) == <<"0", "1", "2", "3", "4", "5", "6", "7", "8", "9">>[n + 1]

\* self.user_progress.get(station.get('id'), 0)
CurLevel(sid) == IF sid \in DOMAIN station_level THEN station_level[sid] ELSE 0

\* h_inv.get(sid, {}).get(str(lvl), {}).get(item_id, 0)
Owned(sid, lvl, item_id) ==
    LET path == <<sid, StrOfInt(lvl), item_id>>
    IN  IF path \in DOMAIN h_inv THEN h_inv[path] ELSE 0

\* the tuple (f"{sname} (Lvl {lvl}): x{rem}", req_type)
Entry(sname, lvl, rem, req_type) ==
    [label |-> [name |-> sname, lvl |-> lvl, rem |-> rem], type |-> req_type]

\* for req in lvl_info.get('requirementItemIds', [])
RECURSIVE ScanReqs(_, _, _, _, _)
ScanReqs(reqs, station, lvl, req_type, tid) ==
    IF reqs = <<>> THEN <<>>
    ELSE LET req == Head(reqs)
             rem == req.quantity - Owned(station.id, lvl, req.itemId)
         IN  (IF req.itemId = tid /\ rem > 0
              THEN <<Entry(station.name, lvl, rem, req_type)>> ELSE <<>>)
             \o ScanReqs(Tail(reqs), station, lvl, req_type, tid)

\* the same loop with the level test off by one (lvl < cur_lvl)
RECURSIVE ScanLevelsFromCurrent(_, _, _, _)
ScanLevelsFromCurrent(levels, station, cur_lvl, tid) ==
    IF levels = <<>> THEN <<>>
    ELSE LET lvl == Head(levels).level
         IN  (IF lvl < cur_lvl THEN <<>>
              ELSE ScanReqs(Head(levels).requirementItemIds, station, lvl,
                            IF lvl = cur_lvl + 1 THEN "next" ELSE "future", tid))
             \o ScanLevelsFromCurrent(Tail(levels), station, cur_lvl, tid)

\* the same loop putting each level's entries in front of the earlier ones
RECURSIVE ScanLevelsNewestFirst(_, _, _, _)
ScanLevelsNewestFirst(levels, station, cur_lvl, tid) ==
    IF levels = <<>> THEN <<>>
    ELSE LET lvl == Head(levels).level
         IN  ScanLevelsNewestFirst(Tail(levels), station, cur_lvl, tid)
             \o (IF lvl <= cur_lvl THEN <<>>
                 ELSE ScanReqs(Head(levels).requirementItemIds, station, lvl,
                               IF lvl = cur_lvl + 1 THEN "next" ELSE "future", tid))

\* for lvl_info in station.get('levels', [])
RECURSIVE ScanLevels(_, _, _, _)
ScanLevels(levels, station, cur_lvl, tid) ==
    IF levels = <<>> THEN <<>>
    ELSE LET lvl == Head(levels).level
         IN  (IF lvl <= cur_lvl THEN <<>>
              ELSE ScanReqs(Head(levels).requirementItemIds, station, lvl,
                            IF lvl = cur_lvl + 1 THEN "next" ELSE "future", tid))
             \o ScanLevels(Tail(levels), station, cur_lvl, tid)

\* for station in self.hideout_data
RECURSIVE ScanStations(_, _)
ScanStations(stations, tid) ==
    IF stations = <<>> THEN <<>>
    ELSE ScanLevels(Head(stations).levels, Head(stations),
                    CurLevel(Head(stations).id), tid)
         \o ScanStations(Tail(stations), tid)

\* DataManager.get_item_by_name and the test on its result
Resolved(item_name) == item_name \in DOMAIN items /\ items[item_name].has_id

\* DataManager.find_hideout_requirements
find_hideout_requirements(item_name) ==
    IF ~Resolved(item_name) THEN <<>>
    ELSE ScanStations(hideout_data, items[item_name].id)

----------------------------------------------------------------------------
(* Inputs of the resolver.                                                 *)

Req(item_id, quantity) == [itemId |-> item_id, quantity |-> quantity]

\* the requirement list of level l in one of two styles: one requirement of
\* wire, or nails and two requirements of wire
ReqsOf(style, l) ==
    IF style = 1 THEN <<Req("wire", l + 1)>>
    ELSE <<Req("nail", 1), Req("wire", 2), Req("wire", 1)>>

LevelInfo(style, l) == [level |-> l, requirementItemIds |-> ReqsOf(style, l)]

\* level numbers in any declared order, repeats and 0 (no 'level' key) included
LevelSeqs == UNION {[1..n -> 0..MaxLevel] : n \in 0..MaxLevels}

Workbenches ==
    {[id |-> "workbench", name |-> "Workbench",
      levels |-> [j \in 1..Len(ls) |-> LevelInfo(style, ls[j])]] :
        ls \in LevelSeqs, style \in {1, 2}}

Stove ==
    [id |-> "stove", name |-> "Stove",
     levels |-> <<LevelInfo(1, 1), LevelInfo(2, 2)>>]

\* hideout inventories: none, one owned count at one level of the workbench,
\* or counts at both stations
Inventories ==
    {<<>>}
    \cup {[p \in {<<"workbench", StrOfInt(l), "wire">>} |-> c] :
            l \in 0..MaxLevel, c \in 0..MaxOwned}
    \cup {[p \in {<<"workbench", "1", "wire">>, <<"stove", "2", "wire">>,
                  <<"stove", "2", "nail">>} |-> 1]}

InitResolver ==
    /\ hideout_data \in {<<w>> : w \in Workbenches} \cup {<<w, Stove>> : w \in Workbenches}
    /\ station_level \in {<<>>} \cup {[s \in {"workbench"} |-> c] : c \in 0..MaxCur}
    /\ h_inv \in Inventories
    /\ query = "none"
    /\ results = <<>>

NoStore ==
    /\ pc = "off"
    /\ user_progress = <<>>
    /\ progress_file = Absent
    /\ tmp_file = Absent
    /\ bak_file = Absent
    /\ caller = "none"
    /\ ret = NoCall.ret
    /\ hist = NoHist

\* a call of find_hideout_requirements(item_name)
FindHideout ==
    /\ \E item_name \in ItemNames :
          /\ query' = item_name
          /\ results' = find_hideout_requirements(item_name)
    /\ UNCHANGED <<hideout_data, station_level, h_inv>>
    /\ UNCHANGED nonhideout

InitReq ==
    /\ NoStore /\ InitResolver /\ NoProjects /\ NoQuests /\ NoItems
    /\ call = NoQuery /\ NoWindow

NextReq == FindHideout

SpecReq == InitReq /\ [][NextReq]_vars

----------------------------------------------------------------------------
(* The resolver: what is claimed of it.                                    *)

Asked == query # "none" /\ Resolved(query)
Target == items[query].id

\* the places of hideout_data: station i, its level j, that level's requirement k
Places ==
    UNION {UNION {{<<i, j, k>> :
                     k \in 1..Len(hideout_data[i].levels[j].requirementItemIds)} :
                  j \in 1..Len(hideout_data[i].levels)} :
           i \in 1..Len(hideout_data)}

StationAt(p) == hideout_data[p[1]]
LevelAt(p) == StationAt(p).levels[p[2]].level
ReqAt(p) == StationAt(p).levels[p[2]].requirementItemIds[p[3]]
CurrentAt(p) ==
    IF StationAt(p).id \in DOMAIN station_level THEN station_level[StationAt(p).id] ELSE 0
OwnedAt(p) ==
    LET path == <<StationAt(p).id, StrOfInt(LevelAt(p)), ReqAt(p).itemId>>
    IN  IF path \in DOMAIN h_inv THEN h_inv[path] ELSE 0
RemainingAt(p) == ReqAt(p).quantity - OwnedAt(p)

\* the places that are to give an entry, and the entry each is to give
Due == {p \in Places : LevelAt(p) > CurrentAt(p) /\ ReqAt(p).itemId = Target
                         /\ RemainingAt(p) > 0}
Want(p) ==
    [label |-> [name |-> StationAt(p).name, lvl |-> LevelAt(p), rem |-> RemainingAt(p)],
     type |-> IF LevelAt(p) = CurrentAt(p) + 1 THEN "next" ELSE "future"]

\* declaration order of two places, and a place's rank among the due ones
Before(p, q) ==
    \/ p[1] < q[1]
    \/ p[1] = q[1] /\ p[2] < q[2]
    \/ p[1] = q[1] /\ p[2] = q[2] /\ p[3] < q[3]
Rank(p) == Cardinality({q \in Due : Before(q, p)}) + 1

Times(e) == Cardinality({n \in 1..Len(results) : results[n] = e})

\* C9: for a resolved item the returned list has one entry for each
\* (station, level, requirement) whose level is above the station's current
\* level (default 0), whose itemId is the item's id and whose remaining
\* amount, quantity minus the owned count (default 0), is positive, and no
\* other entry; the entry shows that amount and is 'next' iff the level is
\* current + 1, else 'future'.
C9_EmittedExactly ==
    Asked =>
        /\ Len(results) = Cardinality(Due)
        /\ \A p \in Due : Times(Want(p)) = Cardinality({q \in Due : Want(q) = Want(p)})

\* C9 witness: the workbench is at level 2; its level 3 asks for 4 wire with
\* 1 owned and gives a 'next' entry of 3, its level 1 gives nothing, and a
\* level two above another station's current level gives a 'future' entry.
C9_NextAndFuture ==
    /\ query = "Wire"
    /\ Len(hideout_data) = 2
    /\ CurLevel("workbench") = 2
    /\ \E j \in 1..Len(hideout_data[1].levels) : hideout_data[1].levels[j].level = 1
    /\ Len(results) >= 2
    /\ results[1] = Entry("Workbench", 3, 3, "next")
    /\ \E n \in 1..Len(results) :
          results[n].label.name = "Stove" /\ results[n].type = "future"

\* the entries come in declaration order: station, then level, then requirement
InDeclarationOrder ==
    /\ Len(results) = Cardinality(Due)
    /\ \A p \in Due : results[Rank(p)] = Want(p)

\* station i gives no 'future' entry before one of its 'next' entries
NextFirst(i) ==
    \A p, q \in Due :
        (p[1] = i /\ q[1] = i /\ Rank(p) < Rank(q)) =>
            ~(results[Rank(p)].type = "future" /\ results[Rank(q)].type = "next")

AscendingLevels(i) ==
    \A j1, j2 \in 1..Len(hideout_data[i].levels) :
        j1 < j2 => hideout_data[i].levels[j1].level <= hideout_data[i].levels[j2].level

\* C10 as stated: the entries come in declaration order, and for every
\* station no 'future' entry comes before a 'next' entry.
C10_NextBeforeFuture ==
    Asked => InDeclarationOrder /\ \A i \in 1..Len(hideout_data) : NextFirst(i)

\* C10 amended: the entries come in station declaration order and within a
\* station in the order its levels are declared, with no re-sorting; for a
\* station whose levels are declared in ascending order no 'future' entry
\* comes before a 'next' entry.
C10_DeclarationOrder ==
    Asked =>
        /\ InDeclarationOrder
        /\ \A i \in 1..Len(hideout_data) : AscendingLevels(i) => NextFirst(i)

\* C10 witness: two stations give entries, the workbench's first, its levels
\* declared ascending: a 'next' entry, then a 'future' one, then the stove's.
C10_TwoStations ==
    /\ query = "Wire"
    /\ Len(results) >= 3
    /\ AscendingLevels(1)
    /\ results[1].label.name = "Workbench" /\ results[1].type = "next"
    /\ results[2].label.name = "Workbench" /\ results[2].type = "future"
    /\ results[Len(results)].label.name = "Stove"

----------------------------------------------------------------------------
(* The project resolver and the trade lookup.                              *)
(* A project name is a sequence of tokens: words, and " " for a space.     *)

\* a call that returned value v, and a call that raised
Returns(v) == [raised |-> FALSE, out |-> v]
Raises == [raised |-> TRUE, out |-> <<>>]

\* DataManager.get_item_by_name: self.items.get(name)
get_item_by_name(name) ==
    IF name \in DOMAIN items
    THEN [found |-> TRUE, has_id |-> items[name].has_id, id |-> items[name].id]
    ELSE [found |-> FALSE, has_id |-> FALSE, id |-> ""]

\* if 'Project' in pname: pname = pname.replace('Project', '').strip()
DisplayName(pname) ==
    IF \E i \in 1..Len(pname) : pname[i] = "Project"
    THEN Strip(SelectSeq(pname, LAMBDA w : w # "Project"))
    ELSE pname

\* prog.get('completed_phase', 0) of p_prog.get(pid, {...})
CompletedPhase(pid) == IF pid \in DOMAIN project_phase THEN project_phase[pid] ELSE 0

\* inv.get(str(pnum), {}).get(item_id, 0) of the project's inventory
OwnedInProject(pid, pnum, item_id) ==
    LET path == <<pid, StrOfInt(pnum), item_id>>
    IN  IF path \in DOMAIN p_inv THEN p_inv[path] ELSE 0

\* the tuple (f"{pname} (Ph{pnum}): x{rem}", req_type)
ProjectEntry(pname, pnum, rem, req_type) ==
    [label |-> [name |-> pname, ph |-> pnum, rem |-> rem], type |-> req_type]

\* for req in phase.get('requirementItemIds', [])
RECURSIVE ScanPhaseReqs(_, _, _, _, _)
ScanPhaseReqs(reqs, proj, pnum, req_type, tid) ==
    IF reqs = <<>> THEN <<>>
    ELSE LET req == Head(reqs)
             rem == req.quantity - OwnedInProject(proj.id, pnum, req.itemId)
         IN  (IF req.itemId = tid /\ rem > 0
              THEN <<ProjectEntry(DisplayName(proj.name), pnum, rem, req_type)>>
              ELSE <<>>)
             \o ScanPhaseReqs(Tail(reqs), proj, pnum, req_type, tid)

\* the same loop over the phases, the completed phase itself included
RECURSIVE ScanPhasesFromCompleted(_, _, _, _)
ScanPhasesFromCompleted(phases, proj, comp_phase, tid) ==
    IF phases = <<>> THEN <<>>
    ELSE LET pnum == Head(phases).phase
         IN  (IF pnum < comp_phase THEN <<>>
              ELSE ScanPhaseReqs(Head(phases).requirementItemIds, proj, pnum,
                                 IF pnum = comp_phase + 1 THEN "next" ELSE "future",
                                 tid))
             \o ScanPhasesFromCompleted(Tail(phases), proj, comp_phase, tid)

\* for phase in proj.get('phases', [])
RECURSIVE ScanPhases(_, _, _, _)
ScanPhases(phases, proj, comp_phase, tid) ==
    IF phases = <<>> THEN <<>>
    ELSE LET pnum == Head(phases).phase
         IN  (IF pnum <= comp_phase THEN <<>>
              ELSE ScanPhaseReqs(Head(phases).requirementItemIds, proj, pnum,
                                 IF pnum = comp_phase + 1 THEN "next" ELSE "future",
                                 tid))
             \o ScanPhases(Tail(phases), proj, comp_phase, tid)

\* for proj in self.project_data
RECURSIVE ScanProjects(_, _)
ScanProjects(projects, tid) ==
    IF projects = <<>> THEN <<>>
    ELSE ScanPhases(Head(projects).phases, Head(projects),
                    CompletedPhase(Head(projects).id), tid)
         \o ScanProjects(Tail(projects), tid)

\* DataManager.find_project_requirements
find_project_requirements(item_name) ==
    LET target_item == get_item_by_name(item_name)
    IN  IF ~target_item.found \/ ~target_item.has_id THEN Returns(<<>>)
        ELSE Returns(ScanProjects(project_data, target_item.id))

\* the step keeping one trade for each item: map[item_id] = [trade]
SetLast(m, k, v) == [x \in DOMAIN m \cup {k} |-> IF x = k THEN <<v>> ELSE m[x]]

\* item_to_trades_map.setdefault(item_id, []).append(trade)
SetDefaultAppend(m, k, v) ==
    [x \in DOMAIN m \cup {k} |->
        IF x = k THEN (IF k \in DOMAIN m THEN m[k] ELSE <<>>) \o <<v>> ELSE m[x]]

\* for trade in self.trade_data, from the map built so far
RECURSIVE MapTrades(_, _)
MapTrades(trades, m) ==
    IF trades = <<>> THEN m
    ELSE LET trade == Head(trades)
         IN  MapTrades(Tail(trades),
                       IF trade.has_itemId /\ trade.itemId # ""
                       THEN SetDefaultAppend(m, trade.itemId, trade) ELSE m)

\* DataManager.item_to_trades_map, as __init__ builds it from trade_data
item_to_trades_map == MapTrades(trade_data, <<>>)

\* DataManager.find_trades_for_item
find_trades_for_item(item_name) ==
    LET item == get_item_by_name(item_name)
    IN  IF item.found /\ item.has_id
        THEN Returns(IF item.id \in DOMAIN item_to_trades_map
                     THEN item_to_trades_map[item.id] ELSE <<>>)
        ELSE Returns(<<>>)

----------------------------------------------------------------------------
(* Inputs of the project resolver: projects that mirror the stations.      *)

\* the names a project made from a station may carry
ProjectNames(sname) ==
    <<(<<sname>>), <<"Project", " ", sname>>, <<sname, " ", "Project">>>>

\* the project with the station's id, levels as phases and i-th name
ProjectOf(station, i) ==
    [id |-> station.id, name |-> ProjectNames(station.name)[i],
     phases |-> [j \in 1..Len(station.levels) |->
                    [phase |-> station.levels[j].level,
                     requirementItemIds |-> station.levels[j].requirementItemIds]]]

Trade(item_id, offer) == [has_itemId |-> TRUE, itemId |-> item_id, offer |-> offer]

\* trade lists: none; wire twice around nails and a trade naming no item;
\* nails and a trade whose itemId is empty
TradeLists ==
    << <<>>,
       <<Trade("wire", "t1"), Trade("nail", "t2"), Trade("wire", "t3"),
         [has_itemId |-> FALSE, itemId |-> "", offer |-> "t4"]>>,
       <<Trade("nail", "t1"), Trade("", "t2")>> >>

InitProjects ==
    /\ hideout_data \in {<<w, Stove>> : w \in Workbenches}
    /\ station_level \in {<<>>, [s \in {"workbench"} |-> 1]}
    /\ h_inv \in {<<>>, [p \in {<<"workbench", "2", "wire">>} |-> 1],
                  [p \in {<<"workbench", "1", "wire">>, <<"stove", "2", "wire">>,
                          <<"stove", "2", "nail">>} |-> 1]}
    /\ query = "none"
    /\ results = <<>>
    /\ \E i \in 1..3 :
          /\ project_data = [n \in 1..Len(hideout_data) |-> ProjectOf(hideout_data[n], i)]
          /\ trade_data = TradeLists[i]
    /\ project_phase = station_level
    /\ p_inv = h_inv
    /\ call = NoQuery

\* a call of find_project_requirements(item_name)
FindProject ==
    /\ \E item_name \in ItemNames :
          call' = [fn |-> "find_project_requirements", arg |-> item_name,
                   raised |-> find_project_requirements(item_name).raised,
                   out |-> find_project_requirements(item_name).out]
    /\ UNCHANGED <<svars, rvars, pvars, qvars, ivars, wvars>>

\* a call of find_trades_for_item(item_name)
FindTrades ==
    /\ \E item_name \in ItemNames :
          call' = [fn |-> "find_trades_for_item", arg |-> item_name,
                   raised |-> find_trades_for_item(item_name).raised,
                   out |-> find_trades_for_item(item_name).out]
    /\ UNCHANGED <<svars, rvars, pvars, qvars, ivars, wvars>>

InitProj == NoStore /\ InitProjects /\ NoQuests /\ NoItems /\ NoWindow

NextProj == FindHideout \/ FindProject \/ FindTrades

SpecProj == InitProj /\ [][NextProj]_vars

----------------------------------------------------------------------------
(* C11: the project resolver against the hideout resolver.                 *)

\* the projects and their progress mirror the stations and theirs
Mirrored ==
    /\ Len(project_data) = Len(hideout_data)
    /\ \A n \in 1..Len(hideout_data) :
          /\ project_data[n].id = hideout_data[n].id
          /\ Len(project_data[n].phases) = Len(hideout_data[n].levels)
          /\ \A j \in 1..Len(hideout_data[n].levels) :
                /\ project_data[n].phases[j].phase = hideout_data[n].levels[j].level
                /\ project_data[n].phases[j].requirementItemIds
                      = hideout_data[n].levels[j].requirementItemIds
    /\ project_phase = station_level
    /\ p_inv = h_inv

AskedBoth ==
    /\ call.fn = "find_project_requirements"
    /\ query # "none"
    /\ call.arg = query

\* a display name carries the words of the project's name other than
\* "Project", with no space at either end
Displays(shown, pname) ==
    /\ SelectSeq(shown, LAMBDA w : w # " ")
          = SelectSeq(pname, LAMBDA w : w # " " /\ w # "Project")
    /\ shown # <<>> => shown[1] # " " /\ shown[Len(shown)] # " "

----------------------------------------------------------------------------
(* C12: unresolved names, and the trades of a resolved item.               *)

\* the trades of the list that name item id, in the order the list has them
TradesNaming(id) == SelectSeq(trade_data, LAMBDA t : t.has_itemId /\ t.itemId = id)

\* C12: asked about a name that is no item, or an item without an id, each of
\* find_hideout_requirements, find_project_requirements and
\* find_trades_for_item returns the empty list and raises nothing; asked about
\* an item with an id, find_trades_for_item returns exactly the trades whose
\* itemId is that id, in declaration order
C12_EmptyOrTrades ==
    /\ (query # "none" /\ ~Resolved(query)) => results = <<>>
    /\ (call.fn \in {"find_project_requirements", "find_trades_for_item"}
            /\ ~Resolved(call.arg))
          => ~call.raised /\ call.out = <<>>
    /\ (call.fn = "find_trades_for_item" /\ Resolved(call.arg))
          => ~call.raised /\ call.out = TradesNaming(items[call.arg].id)

\* the trade lookup gave the two trades of wire in their order, after the
\* hideout resolver gave nothing for an item without an id
C12_TwoTrades ==
    /\ call.fn = "find_trades_for_item" /\ call.arg = "Wire"
    /\ Len(call.out) = 2
    /\ call.out[1].offer = "t1" /\ call.out[2].offer = "t3"
    /\ query = "Gear" /\ results = <<>>

----------------------------------------------------------------------------
(* The quest view.  user_progress holds the key 'quests' as an object; the *)
(* records under it are quest_progress.  A quest without an id has id "".  *)

\* the rank line 215 gives a quest that quest_order does not list
Sentinel == 999

\* the longest quest_order of the short ones
MaxOrder == 2

\* the first two lines of get_filtered_quests without the assignment
KeepProgress(d) == d

\* the assignment made to the progress as a whole: user_progress = {'quests': {}}
ResetQuests(d) == IF "quests" \in Keys(d) THEN d ELSE <<Object("quests", <<>>)>>

\* if 'quests' not in self.user_progress: self.user_progress['quests'] = {}
EnsureQuests(d) ==
    IF "quests" \in Keys(d) THEN d ELSE DictSet(d, Object("quests", <<>>))

\* the defaults of the three progress.get calls
DefaultProgress ==
    [quest_completed |-> FALSE, is_tracked |-> FALSE, objectives_completed |-> <<>>]

\* self.user_progress['quests'].get(q_id, {})
ProgressOf(q_id) ==
    IF q_id \in DOMAIN quest_progress THEN quest_progress[q_id] ELSE DefaultProgress

\* info = quest.copy(); info.update(is_completed=..., is_tracked=..., ...)
QuestInfo(quest) ==
    [id |-> quest.id, name |-> quest.name,
     is_completed |-> ProgressOf(quest.id).quest_completed,
     is_tracked |-> ProgressOf(quest.id).is_tracked,
     objectives_completed |-> ProgressOf(quest.id).objectives_completed]

\* for quest in self.quest_data: the list all_quest_info
RECURSIVE MergeQuests(_)
MergeQuests(quests) ==
    IF quests = <<>> THEN <<>>
    ELSE (IF Head(quests).id = "" THEN <<>> ELSE <<QuestInfo(Head(quests))>>)
         \o MergeQuests(Tail(quests))

\* q_id in custom_order, and custom_order.index(q_id), counted from 0
Listed(q_id) == \E i \in 1..Len(quest_order) : quest_order[i] = q_id
IndexOf(q_id) ==
    LET at == {i \in 1..Len(quest_order) : quest_order[i] = q_id}
    IN  (CHOOSE i \in at : \A j \in at : i <= j) - 1

\* the order of Python tuples of integers of one length
KeyLess(a, b) ==
    \E i \in 1..Len(a) : a[i] < b[i] /\ \A j \in 1..(i - 1) : a[j] = b[j]

\* False < True
Bit(b) == IF b THEN 1 ELSE 0

\* sort_key without the completion component
sort_key_two(q) ==
    <<Bit(~q.is_tracked), IF Listed(q.id) THEN IndexOf(q.id) ELSE Len(quest_order)>>

\* sort_key(q) of the full list
sort_key(q) ==
    <<Bit(~q.is_tracked),
      IF Listed(q.id) THEN IndexOf(q.id) ELSE Len(quest_order),
      Bit(q.is_completed)>>

\* the key of the tracked list: lambda q: ... else 999
tracked_key(q) == <<IF Listed(q.id) THEN IndexOf(q.id) ELSE Sentinel>>

\* sorted(): an element goes behind every element whose key is not greater
RECURSIVE InsertStable(_, _)
InsertStable(sorted, e) ==
    IF sorted = <<>> THEN <<e>>
    ELSE IF KeyLess(e.key, Head(sorted).key) THEN <<e>> \o sorted
    ELSE <<Head(sorted)>> \o InsertStable(Tail(sorted), e)

RECURSIVE SortedStable(_)
SortedStable(keyed) ==
    IF keyed = <<>> THEN <<>>
    ELSE InsertStable(SortedStable(SubSeq(keyed, 1, Len(keyed) - 1)),
                      keyed[Len(keyed)])

\* sorted(seq, key=...), from the elements paired with their keys
Sorted(keyed) ==
    LET done == SortedStable(keyed) IN [i \in 1..Len(done) |-> done[i].val]

\* DataManager.get_filtered_quests, on the progress that line 188 leaves
get_filtered_quests(tracked_only) ==
    LET d == EnsureQuests(user_progress)
        all_quest_info == MergeQuests(quest_data)
        tracked == SelectSeq(all_quest_info,
                             LAMBDA q : q.is_tracked /\ ~q.is_completed)
    IN  IF all_quest_info # <<>> /\ "quests" \notin Keys(d) THEN Raises
        ELSE IF tracked_only
        THEN Returns(Sorted([i \in 1..Len(tracked) |->
                                [key |-> tracked_key(tracked[i]), val |-> tracked[i]]]))
        ELSE Returns(Sorted([i \in 1..Len(all_quest_info) |->
                                [key |-> sort_key(all_quest_info[i]),
                                 val |-> all_quest_info[i]]]))

----------------------------------------------------------------------------
(* Inputs of the quest view.                                               *)

QuestIds == {"q1", "q2", "q3"}

Quest(id) == [id |-> id, name |-> id]

\* three quests, and three records the second of which has no id
QuestLists ==
    { <<Quest("q1"), Quest("q2"), Quest("q3")>>,
      <<Quest("q3"), Quest(""), Quest("q1")>> }

QuestRecord(tracked, completed) ==
    [quest_completed |-> completed, is_tracked |-> tracked,
     objectives_completed |-> IF completed THEN <<"o1">> ELSE <<>>]

\* progress records for any of the quests
QuestProgresses ==
    UNION {[ids -> {QuestRecord(t, c) : t, c \in BOOLEAN}] : ids \in SUBSET QuestIds}

\* a quest_order longer than the sentinel, with q3 behind ids of quests that
\* are no longer there
LongOrder == [i \in 1..(Sentinel + 2) |-> IF i = Sentinel + 2 THEN "q3" ELSE "old"]

QuestOrders ==
    UNION {[1..n -> QuestIds \cup {"old"}] : n \in 0..MaxOrder} \cup {LongOrder}

\* the progress document with the key 'quests'
QuestsDoc == <<Object("quests", <<>>)>>

InitQuests ==
    /\ quest_data \in QuestLists
    /\ quest_progress \in QuestProgresses
    /\ quest_order \in QuestOrders
    /\ user_progress \in (IF quest_progress = <<>> THEN {<<>>} ELSE {}) \cup {QuestsDoc}
    /\ call = NoQuery

\* a call of get_filtered_quests(tracked_only)
GetFilteredQuests ==
    /\ \E tracked_only \in BOOLEAN :
          call' = [fn |-> "get_filtered_quests", arg |-> tracked_only,
                   raised |-> get_filtered_quests(tracked_only).raised,
                   out |-> get_filtered_quests(tracked_only).out]
    /\ user_progress' = EnsureQuests(user_progress)
    /\ UNCHANGED <<pc, progress_file, tmp_file, bak_file, caller, ret, hist>>
    /\ UNCHANGED <<rvars, pvars, qvars, ivars, wvars>>

\* a constructed DataManager but for its progress
LoadedStore ==
    /\ pc = "off"
    /\ progress_file = Absent
    /\ tmp_file = Absent
    /\ bak_file = Absent
    /\ caller = "none"
    /\ ret = NoCall.ret
    /\ hist = NoHist

InitQuest ==
    LoadedStore /\ NoResolver /\ NoProjects /\ NoItems /\ InitQuests /\ NoWindow

NextQuest == GetFilteredQuests

SpecQuest == InitQuest /\ [][NextQuest]_vars

----------------------------------------------------------------------------
(* C13: the full quest list.                                               *)

AskedQuests(tracked_only) ==
    call.fn = "get_filtered_quests" /\ call.arg = tracked_only

\* where quest_data meets the quest with this id
Met(q_id) == CHOOSE i \in 1..Len(quest_data) : quest_data[i].id = q_id

\* a's place in quest_order is before b's, a quest the order does not list
\* being behind every listed one
ListedBefore(a, b) ==
    /\ Listed(a)
    /\ Listed(b) =>
          \E i \in 1..Len(quest_order) :
             /\ quest_order[i] = a
             /\ \A j \in 1..i : quest_order[j] # b

\* neither place is before the other
SamePlace(a, b) == ~ListedBefore(a, b) /\ ~ListedBefore(b, a)

\* a quest is to be in the list: any quest in the full list, the tracked and
\* not completed ones in the tracked list
Listable(q, tracked_only) == tracked_only => q.is_tracked /\ ~q.is_completed

\* the list holds each quest of quest_data that has an id and is to be in
\* it, once, with its progress or the defaults
HoldsQuests(out, tracked_only) ==
    /\ \A n \in 1..Len(out) :
          \E i \in 1..Len(quest_data) :
             /\ quest_data[i].id = out[n].id /\ out[n].id # ""
             /\ out[n].name = quest_data[i].name
    /\ \A n \in 1..Len(out) :
          IF out[n].id \in DOMAIN quest_progress
          THEN /\ out[n].is_tracked = quest_progress[out[n].id].is_tracked
               /\ out[n].is_completed = quest_progress[out[n].id].quest_completed
          ELSE ~out[n].is_tracked /\ ~out[n].is_completed
    /\ \A n \in 1..Len(out) : Listable(out[n], tracked_only)
    /\ \A i \in 1..Len(quest_data) :
          (quest_data[i].id # "" /\ Listable(QuestInfo(quest_data[i]), tracked_only))
             => \E n \in 1..Len(out) :
                   /\ out[n].id = quest_data[i].id
                   /\ \A m \in 1..Len(out) : out[m].id = out[n].id => m = n

\* a is to come before b in the full list: by tracking, then by place, then
\* by completion, then as quest_data met them
FullOrder(a, b) ==
    \/ a.is_tracked /\ ~b.is_tracked
    \/ /\ a.is_tracked = b.is_tracked
       /\ \/ ListedBefore(a.id, b.id)
          \/ /\ SamePlace(a.id, b.id)
             /\ \/ ~a.is_completed /\ b.is_completed
                \/ a.is_completed = b.is_completed /\ Met(a.id) < Met(b.id)

\* the order of the claim as stated: quests the order does not list stay as
\* quest_data met them, whatever their completion
StatedOrder(a, b) ==
    \/ a.is_tracked /\ ~b.is_tracked
    \/ /\ a.is_tracked = b.is_tracked
       /\ \/ ListedBefore(a.id, b.id)
          \/ ~Listed(a.id) /\ ~Listed(b.id) /\ Met(a.id) < Met(b.id)

\* C13: get_filtered_quests(tracked_only=False) returns every quest that has
\* an id, once, tracked quests before untracked ones; within each, quests by
\* their place in quest_order with the unlisted ones behind all listed ones;
\* quests of one place incomplete before completed, and quests equal in all
\* three in the order quest_data met them
C13_FullListSorted ==
    AskedQuests(FALSE) =>
        /\ ~call.raised
        /\ HoldsQuests(call.out, FALSE)
        /\ \A i, j \in 1..Len(call.out) :
              i < j => FullOrder(call.out[i], call.out[j])

\* C13 as stated: the quests quest_order does not list keep the order in which
\* quest_data met them
C13_UnlistedKeepEncounterOrder ==
    AskedQuests(FALSE) =>
        /\ ~call.raised
        /\ HoldsQuests(call.out, FALSE)
        /\ \A i, j \in 1..Len(call.out) :
              i < j => StatedOrder(call.out[i], call.out[j])

\* the full list came back with a tracked quest first, a listed quest before
\* two unlisted ones, and those two against the order quest_data met them
C13_CompletedMovedBack ==
    /\ AskedQuests(FALSE)
    /\ Len(call.out) = 3
    /\ call.out[1].is_tracked /\ ~call.out[2].is_tracked
    /\ ~Listed(call.out[2].id) /\ ~Listed(call.out[3].id)
    /\ ~call.out[2].is_completed /\ call.out[3].is_completed
    /\ Met(call.out[3].id) < Met(call.out[2].id)

----------------------------------------------------------------------------
(* C14: the tracked quest list.                                            *)

\* C14: get_filtered_quests(tracked_only=True) returns exactly the quests
\* that are tracked and not completed, by their place in quest_order, every
\* quest the order does not list behind every listed one, however long
\* quest_order is
C14_TrackedByOrder ==
    AskedQuests(TRUE) =>
        /\ ~call.raised
        /\ HoldsQuests(call.out, TRUE)
        /\ \A i, j \in 1..Len(call.out) :
              i < j => ~ListedBefore(call.out[j].id, call.out[i].id)

----------------------------------------------------------------------------
(* The item loader and the name index.  A name is a sequence of words and  *)
(* of " " for a space; an id is a sequence of characters.  A dict is a     *)
(* sequence of entries in insertion order, each with its key k.            *)

\* the most files of the items directory
MaxFiles == 2

\* what item_object.get('name') is kept as: a string, or the language table
Str(s) == [table |-> FALSE, s |-> s]
Table == [table |-> TRUE, s |-> <<>>]

\* table.get(lang), and 'lang' in table
Has(table, lang) == \E i \in 1..Len(table) : table[i].lang = lang
Get(table, lang) == table[CHOOSE i \in 1..Len(table) : table[i].lang = lang].val

\* item_object once its name is settled; n tells the objects apart
ItemObject(n, file, name, names) ==
    [file |-> n, has_id |-> file.has_id, id |-> file.id, has_name |-> TRUE,
     name |-> name, names |-> names]

\* the loop over the language table indexing the 'en' entry only
RECURSIVE IndexEnglish(_, _, _)
IndexEnglish(index, table, item) ==
    IF table = <<>> THEN index
    ELSE IndexEnglish(IF Head(table).lang = "en" /\ Head(table).val # <<>>
                      THEN DictSet(index, [k |-> Strip(Head(table).val), item |-> item])
                      ELSE index,
                      Tail(table), item)

\* for lang_code, name_val in name_obj.items(): if name_val: choices[...] = ...
RECURSIVE IndexNames(_, _, _)
IndexNames(index, table, item) ==
    IF table = <<>> THEN index
    ELSE IndexNames(IF Head(table).val # <<>>
                    THEN DictSet(index, [k |-> Strip(Head(table).val), item |-> item])
                    ELSE index,
                    Tail(table), item)

\* what the loader has so far: the index and the lines printed
Loading(index, lines) == [choices |-> index, diagnostics |-> lines]

\* the body of the loop of _load_items_from_dir for the n-th file
LoadFile(acc, n, file) ==
    IF ~file.ext_json THEN acc
    ELSE IF ~file.parses \/ ~file.is_object
    THEN Loading(acc.choices, Append(acc.diagnostics, [line |-> "Error", file |-> n]))
    ELSE IF file.name_kind = "table"
    THEN LET item == ItemObject(n, file,
                        IF Has(file.table, "en") THEN Str(Strip(Get(file.table, "en")))
                        ELSE Table,
                        file.table)
         IN  Loading(IndexNames(acc.choices, file.table, item), acc.diagnostics)
    ELSE IF file.name_kind = "str"
    THEN LET item_name == Strip(file.name)
             item == ItemObject(n, file, Str(item_name),
                                <<[lang |-> "en", val |-> item_name]>>)
         IN  Loading(DictSet(acc.choices, [k |-> item_name, item |-> item]),
                     acc.diagnostics)
    ELSE Loading(acc.choices, Append(acc.diagnostics, [line |-> "Warning", file |-> n]))

\* the loop giving up at the first file that does not load
RECURSIVE LoadFilesUntilError(_, _, _)
LoadFilesUntilError(files, n, acc) ==
    IF n > Len(files) THEN acc
    ELSE IF files[n].ext_json /\ (~files[n].parses \/ ~files[n].is_object)
    THEN LoadFile(acc, n, files[n])
    ELSE LoadFilesUntilError(files, n + 1, LoadFile(acc, n, files[n]))

\* for filename in os.listdir(directory), from the n-th file on
RECURSIVE LoadFiles(_, _, _)
LoadFiles(files, n, acc) ==
    IF n > Len(files) THEN acc
    ELSE LoadFiles(files, n + 1, LoadFile(acc, n, files[n]))

\* ItemDatabase._load_items_from_dir
load_items_from_dir(dir) ==
    IF ~dir.exists
    THEN Loading(<<>>, <<[line |-> "Warning", file |-> 0]>>)
    ELSE LoadFiles(dir.files, 1, Loading(<<>>, <<>>))

\* for item in self.items.values(): if item.get('id'): id_to_item_map[...] = item
RECURSIVE MapIds(_, _)
MapIds(entries, m) ==
    IF entries = <<>> THEN m
    ELSE MapIds(Tail(entries),
                IF Head(entries).item.has_id /\ Head(entries).item.id # <<>>
                THEN DictSet(m, [k |-> Head(entries).item.id,
                                 item |-> Head(entries).item])
                ELSE m)

\* the comprehension naming each item by its id
MapNamesById(m) == [i \in 1..Len(m) |-> [k |-> m[i].k, name |-> Str(m[i].k)]]

\* {i_id: item.get('name', 'Unknown') for i_id, item in id_to_item_map.items()}
MapNames(m) ==
    [i \in 1..Len(m) |->
        [k |-> m[i].k,
         name |-> IF m[i].item.has_name THEN m[i].item.name ELSE Str(<<"Unknown">>)]]

\* self.items.get(name)
items_get(name) ==
    IF name \in Keys(choices)
    THEN [found |-> TRUE, item |-> choices[Index(choices, name)].item]
    ELSE [found |-> FALSE, item |-> <<>>]

\* letters and their two cases
Lowers == <<"a", "b", "g", "n", "w", "x">>
Uppers == <<"A", "B", "G", "N", "W", "X">>
IsLetter(c) == \E i \in 1..Len(Lowers) : c = Lowers[i] \/ c = Uppers[i]
Upper(c) ==
    IF \E i \in 1..Len(Lowers) : c = Lowers[i]
    THEN Uppers[CHOOSE i \in 1..Len(Lowers) : c = Lowers[i]] ELSE c
Lower(c) ==
    IF \E i \in 1..Len(Uppers) : c = Uppers[i]
    THEN Lowers[CHOOSE i \in 1..Len(Uppers) : c = Uppers[i]] ELSE c

\* str.replace('_', ' ')
Spaced(s) == [i \in 1..Len(s) |-> IF s[i] = "_" THEN " " ELSE s[i]]

\* str.capitalize(): the first character upper, the others lower
Capitalized(s) == [i \in 1..Len(s) |-> IF i = 1 THEN Upper(s[i]) ELSE Lower(s[i])]

\* str.title(): a letter after a letter lower, any other letter upper
Title(s) ==
    [i \in 1..Len(s) |->
        IF i > 1 /\ IsLetter(s[i - 1]) THEN Lower(s[i]) ELSE Upper(s[i])]

\* DataManager.get_localized_name; an identifier is a dict, a str or neither
get_localized_name(item_identifier, lang_code) ==
    LET by_id == IF item_identifier.kind = "str"
                    /\ item_identifier.s \in Keys(id_to_item_map)
                 THEN id_to_item_map[Index(id_to_item_map, item_identifier.s)].item
                 ELSE <<>>
        item == IF item_identifier.kind = "dict" THEN item_identifier.item ELSE by_id
    IN  IF item = <<>>
        THEN (IF item_identifier.kind = "str"
              THEN Returns(Str(Title(Spaced(item_identifier.s))))
              ELSE Returns(Str(<<"Unknown">>)))
        ELSE IF Has(item.names, lang_code)
        THEN Returns(Str(Get(item.names, lang_code)))
        ELSE IF item.has_name THEN Returns(item.name)
        ELSE Returns(Str(<<"Unknown">>))

----------------------------------------------------------------------------
(* Inputs of the item loader.                                              *)

Named(lang, val) == [lang |-> lang, val |-> val]

\* a .json file holding an object
ItemFile(has_id, id, name_kind, name, table) ==
    [ext_json |-> TRUE, parses |-> TRUE, is_object |-> TRUE,
     has_id |-> has_id, id |-> id, name_kind |-> name_kind,
     name |-> name, table |-> table]

NoFile == ItemFile(FALSE, <<>>, "none", <<>>, <<>>)

\* wire in two languages, its English name with spaces around it; nails with
\* the German name of wire; a gear named by a string, its id empty; a wheel
\* with the id of wire and no English name, one name empty; an object with no
\* name; a file that is no JSON; a JSON list; a file that is no .json
ItemFiles ==
    { ItemFile(TRUE, <<"w">>, "table", <<>>,
               <<Named("en", <<" ", "Wire", " ">>), Named("de", <<"Draht">>)>>),
      ItemFile(TRUE, <<"n">>, "table", <<>>,
               <<Named("de", <<"Draht">>), Named("en", <<"Nail">>)>>),
      ItemFile(TRUE, <<>>, "str", <<"Gear", " ">>, <<>>),
      ItemFile(TRUE, <<"w">>, "table", <<>>,
               <<Named("de", <<"Rad">>), Named("fr", <<>>)>>),
      ItemFile(TRUE, <<"x">>, "none", <<>>, <<>>),
      [NoFile EXCEPT !.parses = FALSE],
      [NoFile EXCEPT !.is_object = FALSE],
      [NoFile EXCEPT !.ext_json = FALSE] }

ItemDirs ==
    {[exists |-> FALSE, files |-> <<>>]}
    \cup {[exists |-> TRUE, files |-> fs] :
            fs \in UNION {[1..n -> ItemFiles] : n \in 0..MaxFiles}}

Langs == {"en", "de", "fr"}

\* the names the files declare, as declared and stripped, and one more
LookupNames ==
    {<<"Nope">>}
    \cup UNION {{f.name, Strip(f.name)} : f \in {g \in ItemFiles : g.name_kind = "str"}}
    \cup UNION {UNION {{f.table[i].val, Strip(f.table[i].val)} :
                           i \in 1..Len(f.table)} : f \in ItemFiles}

\* a dict that is no loaded item: it has an id only
BareDict ==
    [file |-> 0, has_id |-> TRUE, id |-> <<"x">>, has_name |-> FALSE,
     name |-> Str(<<>>), names |-> <<>>]

\* identifiers: the items of the index and a bare dict; the ids of the files
\* and strings that are no id; None
Identifiers ==
    {[kind |-> "dict", item |-> choices[i].item, s |-> <<>>] : i \in 1..Len(choices)}
    \cup {[kind |-> "dict", item |-> BareDict, s |-> <<>>]}
    \cup {[kind |-> "str", item |-> <<>>, s |-> s] :
            s \in {<<"w">>, <<"n">>, <<"x">>, <<>>, <<"a", "_", "B", "b">>,
                   <<"A", "B", "-", "a", "_", "_", "x">>}}
    \cup {[kind |-> "other", item |-> <<>>, s |-> <<>>]}

InitItems ==
    /\ item_dir \in ItemDirs
    /\ loaded = FALSE
    /\ choices = <<>>
    /\ id_to_item_map = <<>>
    /\ id_to_name_map = <<>>
    /\ diagnostics = <<>>
    /\ call = NoQuery

\* ItemDatabase loads the directory and DataManager.__init__ builds the maps
LoadItems ==
    /\ ~loaded
    /\ loaded' = TRUE
    /\ choices' = load_items_from_dir(item_dir).choices
    /\ diagnostics' = load_items_from_dir(item_dir).diagnostics
    /\ id_to_item_map' = MapIds(choices', <<>>)
    /\ id_to_name_map' = MapNames(id_to_item_map')
    /\ UNCHANGED <<item_dir, call>>
    /\ UNCHANGED <<svars, rvars, pvars, qvars, wvars>>

\* a call of get_item_by_name(name) on the loaded items
GetItemByName ==
    /\ loaded
    /\ \E name \in LookupNames :
          call' = [fn |-> "get_item_by_name", arg |-> name, raised |-> FALSE,
                   out |-> items_get(name)]
    /\ UNCHANGED <<svars, rvars, pvars, qvars, ivars, wvars>>

\* a call of get_localized_name(item_identifier, lang_code)
GetLocalizedName ==
    /\ loaded
    /\ \E item_identifier \in Identifiers, lang_code \in Langs :
          call' = [fn |-> "get_localized_name",
                   arg |-> [item_identifier |-> item_identifier,
                            lang_code |-> lang_code],
                   raised |-> get_localized_name(item_identifier, lang_code).raised,
                   out |-> get_localized_name(item_identifier, lang_code).out]
    /\ UNCHANGED <<svars, rvars, pvars, qvars, ivars, wvars>>

InitIndex ==
    NoStore /\ NoResolver /\ NoProjects /\ NoQuests /\ InitItems /\ NoWindow

NextIndex == LoadItems \/ GetItemByName \/ GetLocalizedName

SpecIndex == InitIndex /\ [][NextIndex]_vars

----------------------------------------------------------------------------
(* C17: looking an item up by its localized names.                         *)

\* the n-th file of the directory is read as an item
ReadAsItem(n) ==
    LET file == item_dir.files[n]
    IN  file.ext_json /\ file.parses /\ file.is_object /\ file.name_kind # "none"

\* the names the n-th file declares that are not empty
Declared(n) ==
    LET file == item_dir.files[n]
    IN  IF file.name_kind = "str" THEN {file.name}
        ELSE {file.table[i].val : i \in 1..Len(file.table)} \ {<<>>}

\* the n-th file names its item by a language table with an 'en' entry
HasEnglish(n) ==
    ReadAsItem(n) /\ item_dir.files[n].name_kind = "table" /\ Has(item_dir.files[n].table, "en")

\* a file read after the n-th declares a name that strips to this key
Redeclared(n, key) ==
    \E m \in (n + 1)..Len(item_dir.files) :
        ReadAsItem(m) /\ \E name \in Declared(m) : Strip(name) = key

AskedByName == loaded /\ call.fn = "get_item_by_name"

\* the call found the item of the n-th file, named by its stripped 'en' value
FoundItemOf(n) ==
    /\ call.out.found
    /\ call.out.item.file = n
    /\ call.out.item.id = item_dir.files[n].id
    /\ call.out.item.name = Str(Strip(Get(item_dir.files[n].table, "en")))

\* C17: for an item whose name is a language table with an 'en' entry,
\* get_item_by_name with the stripped form of any of its non-empty declared
\* names returns that item, its canonical name being the stripped 'en' value,
\* provided no file read later declares a name with the same stripped form
C17_LookupByStrippedName ==
    AskedByName =>
        \A n \in 1..Len(item_dir.files) :
            HasEnglish(n) =>
                \A name \in Declared(n) :
                    (call.arg = Strip(name) /\ ~Redeclared(n, Strip(name)))
                        => FoundItemOf(n)

\* C17 as stated: get_item_by_name with any non-empty declared name of such
\* an item returns that item, whatever the other files declare
C17_LookupByDeclaredName ==
    AskedByName =>
        \A n \in 1..Len(item_dir.files) :
            HasEnglish(n) =>
                \A name \in Declared(n) : call.arg = name => FoundItemOf(n)

\* wire was found by its German name, with a second item loaded after it
C17_FoundByGermanName ==
    /\ AskedByName
    /\ Len(item_dir.files) = 2 /\ HasEnglish(1) /\ ReadAsItem(2)
    /\ call.arg = <<"Draht">>
    /\ FoundItemOf(1)
    /\ call.out.item.name = Str(<<"Wire">>)

----------------------------------------------------------------------------
(* C18: files that do not load.                                            *)

\* DataManager._load_json_dir, from the n-th file on: the numbers of the
\* files whose JSON it appends, and the lines it prints
RECURSIVE LoadJsonFiles(_, _, _)
LoadJsonFiles(files, n, acc) ==
    IF n > Len(files) THEN acc
    ELSE LoadJsonFiles(files, n + 1,
            IF ~files[n].ext_json THEN acc
            ELSE IF files[n].parses
            THEN [acc EXCEPT !.data_list = Append(@, n)]
            ELSE [acc EXCEPT !.diagnostics = Append(@, [line |-> "Error", file |-> n])])

load_json_dir(dir) ==
    IF ~dir.exists
    THEN [data_list |-> <<>>, diagnostics |-> <<[line |-> "Warning", file |-> 0]>>]
    ELSE LoadJsonFiles(dir.files, 1, [data_list |-> <<>>, diagnostics |-> <<>>])

\* the .json files of the directory that give no item
Skipped == {n \in 1..Len(item_dir.files) : item_dir.files[n].ext_json /\ ~ReadAsItem(n)}

\* the items the index holds, told apart by the file each came from
Indexed == {choices[i].item.file : i \in 1..Len(choices)}

----------------------------------------------------------------------------
(* C19: localized names.                                                   *)

AskedLocalized == loaded /\ call.fn = "get_localized_name"

\* the identifier of the call is a dict, or the id of an item of the map
IsResolved(ident) ==
    \/ ident.kind = "dict"
    \/ ident.kind = "str" /\ \E i \in 1..Len(id_to_item_map) : id_to_item_map[i].k = ident.s

\* the item an identifier stands for
ItemOf(ident) ==
    IF ident.kind = "dict" THEN ident.item
    ELSE id_to_item_map[CHOOSE i \in 1..Len(id_to_item_map) :
                            id_to_item_map[i].k = ident.s].item

\* t is s with spaces for underscores, each letter that starts a run of
\* letters in upper case and every other letter in lower case
TitleOf(t, s) ==
    /\ Len(t) = Len(s)
    /\ \A i \in 1..Len(s) :
          IF s[i] = "_" THEN t[i] = " "
          ELSE IF ~IsLetter(s[i]) THEN t[i] = s[i]
          ELSE IF i = 1 \/ ~IsLetter(s[i - 1])
          THEN t[i] = Upper(s[i]) /\ t[i] \notin {Lowers[k] : k \in 1..Len(Lowers)}
          ELSE t[i] = Lower(s[i]) /\ t[i] \notin {Uppers[k] : k \in 1..Len(Uppers)}

\* C19: get_localized_name(identifier, lang) raises nothing.  For a dict, or
\* the id of an item, it returns the lang entry of the item's name table if
\* there is one, else the item's canonical name, else "Unknown"; for a string
\* that is no item's id it returns the string with underscores made spaces
\* and in title case; for anything else "Unknown"
C19_LocalizedName ==
    AskedLocalized =>
        LET ident == call.arg.item_identifier
            lang == call.arg.lang_code
        IN  /\ ~call.raised
            /\ IsResolved(ident) =>
                  IF \E i \in 1..Len(ItemOf(ident).names) :
                        ItemOf(ident).names[i].lang = lang
                  THEN \E i \in 1..Len(ItemOf(ident).names) :
                          /\ ItemOf(ident).names[i].lang = lang
                          /\ call.out = Str(ItemOf(ident).names[i].val)
                  ELSE IF ItemOf(ident).has_name
                  THEN call.out = ItemOf(ident).name
                  ELSE call.out = Str(<<"Unknown">>)
            /\ (~IsResolved(ident) /\ ident.kind = "str") =>
                  ~call.out.table /\ TitleOf(call.out.s, ident.s)
            /\ (~IsResolved(ident) /\ ident.kind # "str") =>
                  call.out = Str(<<"Unknown">>)

\* a string that is no id came back in title case, with items loaded
C19_TitleCased ==
    /\ AskedLocalized
    /\ Len(id_to_item_map) > 0
    /\ call.arg.item_identifier.kind = "str"
    /\ call.arg.item_identifier.s = <<"A", "B", "-", "a", "_", "_", "x">>
    /\ call.out.s = <<"A", "b", "-", "A", " ", " ", "X">>

----------------------------------------------------------------------------
(* C20: the id maps.                                                       *)

\* C20: once the maps are built, every id of id_to_item_map maps to an item
\* of the collection that carries this id, every item of the collection with
\* a non-empty id has its id in the map, id_to_name_map has the same keys,
\* and it maps each id to the canonical name of the item id_to_item_map gives
C20_MapsConsistent ==
    loaded =>
        /\ \A i \in 1..Len(id_to_item_map) :
              /\ id_to_item_map[i].item.has_id
              /\ id_to_item_map[i].item.id = id_to_item_map[i].k
              /\ \E j \in 1..Len(choices) : choices[j].item = id_to_item_map[i].item
              /\ \A j \in 1..Len(id_to_item_map) :
                    id_to_item_map[j].k = id_to_item_map[i].k => j = i
        /\ \A j \in 1..Len(choices) :
              (choices[j].item.has_id /\ choices[j].item.id # <<>>)
                 => choices[j].item.id \in Keys(id_to_item_map)
        /\ Keys(id_to_name_map) = Keys(id_to_item_map)
        /\ Len(id_to_name_map) = Len(id_to_item_map)
        /\ \A i \in 1..Len(id_to_name_map) :
              id_to_name_map[i].name
                 = id_to_item_map[Index(id_to_item_map, id_to_name_map[i].k)].item.name

\* two items with one id and an item with an empty id were loaded: the map
\* holds the id once, for the item read last
C20_SharedId ==
    /\ loaded
    /\ Len(item_dir.files) = 2
    /\ Cardinality(Indexed) = 2
    /\ Len(id_to_item_map) = 1
    /\ id_to_item_map[1].item.file = 2
    /\ id_to_name_map[1].name = Table

----------------------------------------------------------------------------
(* The queries on one DataManager: the progress is loaded from the file,   *)
(* the items from their directory, and then any query may be called.       *)

\* a progress document with quest records, and what the queries read of it
QuestProgressDoc ==
    <<Object("quests", <<>>), Object("item_notes", <<Leaf("a", <<"n">>)>>)>>

\* a progress document without the key 'quests'
NotesDoc ==
    <<Object("item_notes", <<Leaf("a", <<"n">>)>>), Scalar("custom", <<"x">>)>>

\* the progress file is absent, or holds one of the two documents; the
\* progress keys the queries read are as the file has them
InitProgress ==
    \/ /\ progress_file = Absent
       /\ station_level = <<>>
       /\ h_inv = <<>>
       /\ quest_progress = <<>>
       /\ quest_order = <<>>
    \/ /\ progress_file = File(Text(QuestProgressDoc))
       /\ station_level = [s \in {"workbench"} |-> 1]
       /\ h_inv = [p \in {<<"workbench", "2", "wire">>} |-> 1]
       /\ quest_progress = [q \in {"q1", "q2"} |-> QuestRecord(q = "q1", q = "q2")]
       /\ quest_order = <<"q2", "q1">>
    \/ /\ progress_file = File(Text(NotesDoc))
       /\ station_level = [s \in {"workbench"} |-> 1]
       /\ h_inv = <<>>
       /\ quest_progress = <<>>
       /\ quest_order = <<"q3">>

InitView ==
    /\ pc = "off"
    /\ user_progress = <<>>
    /\ InitProgress
    /\ tmp_file = Absent
    /\ bak_file = Absent
    /\ caller = "none"
    /\ ret = NoCall.ret
    /\ hist = NoHist
    /\ hideout_data =
          <<[id |-> "workbench", name |-> "Workbench",
             levels |-> <<LevelInfo(2, 1), LevelInfo(2, 2)>>], Stove>>
    /\ query = "none"
    /\ results = <<>>
    /\ project_data = [n \in 1..Len(hideout_data) |-> ProjectOf(hideout_data[n], 2)]
    /\ project_phase = station_level
    /\ p_inv = h_inv
    /\ trade_data = TradeLists[2]
    /\ quest_data \in QuestLists
    /\ item_dir \in {d \in ItemDirs :
                        Len(d.files) = 1 /\ d.files[1].name_kind = "table"}
    /\ loaded = FALSE
    /\ choices = <<>>
    /\ id_to_item_map = <<>>
    /\ id_to_name_map = <<>>
    /\ diagnostics = <<>>
    /\ call = NoQuery
    /\ NoWindow

\* a call of get_item_note(item_id)
GetItemNote ==
    /\ \E item_id \in ItemIds :
          call' = [fn |-> "get_item_note", arg |-> item_id, raised |-> FALSE,
                   out |-> get_item_note(user_progress, item_id)]
    /\ UNCHANGED <<svars, rvars, pvars, qvars, ivars, wvars>>

\* the DataManager is constructed and its items are loaded
Constructed == pc = "idle" /\ loaded

NextView ==
    \/ Start
    \/ LoadItems
    \/ Constructed /\ FindHideout
    \/ Constructed /\ FindProject
    \/ Constructed /\ FindTrades
    \/ Constructed /\ GetFilteredQuests
    \/ Constructed /\ GetItemNote
    \/ Constructed /\ GetItemByName
    \/ Constructed /\ GetLocalizedName

SpecView == InitView /\ [][NextView]_vars

----------------------------------------------------------------------------
(* C15: what the queries leave alone.                                      *)

\* a step of a query: the DataManager is constructed before it and after it
QueryStep == Constructed /\ Constructed'

\* the files and the reference collections stay, the index and its maps too
FilesAndDataUnchanged ==
    /\ UNCHANGED <<progress_file, tmp_file, bak_file>>
    /\ UNCHANGED <<hideout_data, project_data, trade_data, quest_data>>
    /\ UNCHANGED <<choices, id_to_item_map, id_to_name_map, item_dir>>
    /\ UNCHANGED <<station_level, h_inv, project_phase, p_inv, quest_progress,
                   quest_order>>

\* C15: a query does no file I/O and leaves the reference collections and
\* user_progress as they are, but for get_filtered_quests, which puts an empty
\* 'quests' entry into user_progress when it has none
C15_QueriesKeepAllButQuestsKey ==
    [][QueryStep =>
          /\ FilesAndDataUnchanged
          /\ \/ user_progress' = user_progress
             \/ /\ call'.fn = "get_filtered_quests"
                /\ "quests" \notin Keys(user_progress)
                /\ user_progress' = Append(user_progress, Object("quests", <<>>))]_vars

\* C15 as stated: a query leaves user_progress, the progress file and the
\* reference collections unchanged
C15_QueriesAreReads ==
    [][QueryStep => FilesAndDataUnchanged /\ user_progress' = user_progress]_vars

\* the progress file held no 'quests' key; after get_filtered_quests the
\* progress in memory has it, beside the keys the file had, and the file is
\* as it was
C15_QuestsKeyCreated ==
    /\ Constructed
    /\ call.fn = "get_filtered_quests"
    /\ progress_file = File(Text(NotesDoc))
    /\ user_progress = Append(NotesDoc, Object("quests", <<>>))
    /\ tmp_file = Absent

----------------------------------------------------------------------------
(* C16: reads with no progress file.                                       *)

\* the progress file was absent when the DataManager loaded it
LoadedNothing == Constructed /\ progress_file = Absent

\* an entry for a requirement of the asked item with nothing owned, at a
\* station or project whose level is 0
DefaultEntry(e, lvl, owner, tid) ==
    \E j \in 1..Len(owner) :
        /\ (IF "level" \in DOMAIN owner[j] THEN owner[j].level ELSE owner[j].phase) = lvl
        /\ lvl > 0
        /\ e.type = (IF lvl = 1 THEN "next" ELSE "future")
        /\ \E k \in 1..Len(owner[j].requirementItemIds) :
              /\ owner[j].requirementItemIds[k].itemId = tid
              /\ owner[j].requirementItemIds[k].quantity = e.label.rem

\* the requirements of the asked item in levels above 0
DefaultCount(tid) ==
    Cardinality({p \in Places : LevelAt(p) > 0 /\ ReqAt(p).itemId = tid
                                  /\ ReqAt(p).quantity > 0})

----------------------------------------------------------------------------
(* C21: what set_item_note changes.                                        *)

\* a step that is a call of set_item_note up to its call of save
NoteStep == pc = "idle" /\ pc' = "save_open" /\ caller' = "set_item_note"

\* the step in which the save that set_item_note called replaces the file
NoteSaved == caller = "set_item_note" /\ pc = "save_replace" /\ pc' = "idle"

\* the entries of a progress document other than the notes, in their order
OtherKeys(d) == SelectSeq(d, LAMBDA e : e.k # "item_notes")

\* the ids that have a note in a progress document
Noted(d) ==
    IF "item_notes" \in Keys(d) THEN Keys(d[Index(d, "item_notes")].o) ELSE {}

\* the note has a character that is no space
HasContent(note) == \E i \in 1..Len(note) : note[i] # " "

\* t is the note without the spaces at its two ends
StrippedOf(t, note) ==
    \E i, j \in 1..Len(note) :
        /\ t = SubSeq(note, i, j)
        /\ note[i] # " " /\ note[j] # " "
        /\ \A k \in 1..Len(note) : (k < i \/ k > j) => note[k] = " "

\* going from progress d to progress e is what set_item_note(item_id, note)
\* is to do
NoteSet(d, e, item_id, note) ==
    /\ OtherKeys(e) = OtherKeys(d)
    /\ \A other \in ItemIds \ {item_id} :
          /\ other \in Noted(e) <=> other \in Noted(d)
          /\ get_item_note(e, other) = get_item_note(d, other)
    /\ IF HasContent(note)
       THEN item_id \in Noted(e) /\ StrippedOf(get_item_note(e, item_id), note)
       ELSE item_id \notin Noted(e) /\ get_item_note(e, item_id) = <<>>

\* C21: set_item_note(id, note) stores the stripped note under item_notes[id]
\* when the note has content and removes the entry when it is blank, so that
\* get_item_note(id) gives the stripped text or ""; every other key of
\* user_progress and every other item's note stay as they are; it then calls
\* save_user_progress with the resulting state, which is the text the save
\* puts into the progress file when it replaces it
C21_OnlyTheNote ==
    [][/\ NoteStep =>
             /\ \E item_id \in ItemIds, note \in NoteInputs :
                   NoteSet(user_progress, user_progress', item_id, note)
             /\ hist'.last.op = "save"
             /\ hist'.last.mem = user_progress'
       /\ NoteSaved =>
             /\ user_progress' = hist.last.mem
             /\ progress_file' = File(Text(user_progress'))]_vars

\* a note given with spaces around it is kept stripped beside another item's
\* note and an unknown key, and is in the progress file
C21_StrippedNoteSaved ==
    /\ SaveReturned /\ caller = "set_item_note" /\ hist.last.ok
    /\ get_item_note(user_progress, "b") = <<"m">>
    /\ get_item_note(user_progress, "a") = <<"n">>
    /\ "custom" \in Keys(user_progress)
    /\ progress_file = File(Text(user_progress))

----------------------------------------------------------------------------
(* src/modules/base_manager_window.py: the debounced auto-save of a        *)
(* manager window.  The window runs in the Qt event loop, one handler at a *)
(* time.  Time is counted in steps of the clock while the timer is active. *)

\* save_timer.setInterval(2000), in milliseconds
Interval == 2000

\* the clock steps that make one interval
Ticks == 8

\* the armings of an idle timer that are followed
MaxArmings == 4

\* the milliseconds of one clock step
TickMs == Interval \div Ticks

\* the timer after QTimer.start(): active, with the whole interval ahead
Started == [active |-> TRUE, remaining |-> Interval]

\* the timer after QTimer.stop(), or after a single-shot timer has fired
Stopped == [active |-> FALSE, remaining |-> 0]

\* _perform_save: save_progress is invoked (and progress_saved emitted)
PerformSave == saves' = saves + 1

\* what closeEvent and hideEvent do before they hand the event on, without
\* their test of isActive()
StopAndSaveAlways == save_timer' = Stopped /\ PerformSave

\* what closeEvent and hideEvent do before they hand the event on: an active
\* timer is stopped and then the save is performed
StopAndSave ==
    IF save_timer.active
    THEN save_timer' = Stopped /\ PerformSave
    ELSE UNCHANGED <<save_timer, saves>>

\* the window is shown and nothing was edited yet
InitWindowVars ==
    /\ save_timer = Stopped
    /\ window = "shown"
    /\ saves = 0
    /\ armings = 0
    /\ last = "none"

\* start_save_timer(): an edit arms the timer, or restarts it when it runs
StartSaveTimer ==
    /\ window # "closing"
    /\ save_timer.active \/ armings < MaxArmings
    /\ save_timer' = Started
    /\ armings' = IF save_timer.active THEN armings ELSE armings + 1
    /\ last' = IF save_timer.active THEN "restart" ELSE "start"
    /\ UNCHANGED <<window, saves>>
    /\ UNCHANGED <<svars, rvars, pvars, qvars, ivars, call>>

\* the clock advances while the timer runs
Tick ==
    /\ window # "closing"
    /\ save_timer.active /\ save_timer.remaining > 0
    /\ save_timer' = [save_timer EXCEPT !.remaining =
                         IF @ > TickMs THEN @ - TickMs ELSE 0]
    /\ last' = "tick"
    /\ UNCHANGED <<window, saves, armings>>
    /\ UNCHANGED <<svars, rvars, pvars, qvars, ivars, call>>

\* the interval has passed: the single-shot timer goes idle and its timeout
\* signal calls _perform_save
Timeout ==
    /\ window # "closing"
    /\ save_timer.active /\ save_timer.remaining = 0
    /\ save_timer' = Stopped
    /\ PerformSave
    /\ last' = "timeout"
    /\ UNCHANGED <<window, armings>>
    /\ UNCHANGED <<svars, rvars, pvars, qvars, ivars, call>>

\* hideEvent(event): the window is hidden, by the user or by a close
HideEvent ==
    /\ window \in {"shown", "closing"}
    /\ StopAndSave
    /\ window' = "hidden"
    /\ last' = "hide"
    /\ UNCHANGED armings
    /\ UNCHANGED <<svars, rvars, pvars, qvars, ivars, call>>

\* closeEvent(event): the window is closed; a window that is shown is hidden
\* next, before any other event
CloseEvent ==
    /\ window \in {"shown", "hidden"}
    /\ StopAndSave
    /\ window' = IF window = "shown" THEN "closing" ELSE "hidden"
    /\ last' = "close"
    /\ UNCHANGED armings
    /\ UNCHANGED <<svars, rvars, pvars, qvars, ivars, call>>

\* the window is shown again
ShowWindow ==
    /\ window = "hidden"
    /\ window' = "shown"
    /\ last' = "show"
    /\ UNCHANGED <<save_timer, saves, armings>>
    /\ UNCHANGED <<svars, rvars, pvars, qvars, ivars, call>>

InitWindow ==
    /\ NoStore /\ NoResolver /\ NoProjects /\ NoQuests /\ NoItems
    /\ call = NoQuery /\ InitWindowVars

NextWindow ==
    \/ StartSaveTimer
    \/ Tick
    \/ Timeout
    \/ HideEvent
    \/ CloseEvent
    \/ ShowWindow

\* the event loop runs: the clock advances while the timer is active, and a
\* timer whose interval has passed fires
SpecWindow ==
    InitWindow /\ [][NextWindow]_vars /\ WF_vars(Tick) /\ WF_vars(Timeout)

----------------------------------------------------------------------------
(* C22: one save for each arming of the save timer.                        *)

\* every arming but the one that is running has had its single save
Settled == armings = saves + (IF save_timer.active THEN 1 ELSE 0)

\* what a step of the window does to the timer and the saves
OneSave ==
    /\ saves' \in {saves, saves + 1}
    /\ saves' = saves + 1 <=> (save_timer.active /\ ~save_timer'.active)
    /\ (save_timer.active /\ ~save_timer'.active) =>
          \/ last' = "timeout" /\ save_timer.remaining = 0
          \/ last' \in {"hide", "close"}
    /\ last' \in {"hide", "close"} => ~save_timer'.active
    /\ last' \in {"start", "restart"} =>
          /\ last' = "restart" <=> save_timer.active
          /\ save_timer' = Started
          /\ saves' = saves
    /\ Settled'

\* C22: save_progress is invoked once for each arming of the single-shot
\* timer and never otherwise: when the timer fires after its 2000 ms, or at
\* once when the window is hidden or closed while the timer is active, the
\* timer being stopped; start_save_timer on a running timer only restarts the
\* delay, and a hide or close with the timer idle saves nothing.  While the
\* event loop runs, an armed timer leads to its save or to a restart of it
C22_OneSavePerArming ==
    /\ [][OneSave]_vars
    /\ \A n \in 1..MaxArmings :
          (armings = n /\ save_timer.active) ~> (saves = n \/ last = "restart")

\* C22 as stated: an armed timer always leads to its save
C22_ArmingLeadsToSave ==
    \A n \in 1..MaxArmings : (armings = n /\ save_timer.active) ~> saves = n

\* the first arming was saved by the timeout; the second was saved by the
\* close of the shown window, and the hide that follows saved nothing more
C22_CloseThenHideSavedOnce ==
    /\ last = "hide" /\ window = "hidden"
    /\ ~save_timer.active
    /\ armings = 2 /\ saves = 2

====
